---- MODULE Spec2Model ----
(***************************************************************************)
(* docker-ovs-plugin: the OVSDB cache (ovs/ovsdb.go part of utils.go), the *)
(* bridge lifecycle (ovs/ovs_bridge.go) and the network driver             *)
(* (ovs/driver.go part of utils.go).                                       *)
(*                                                                         *)
(* Six specifications:                                                     *)
(*   SpecCache  populateCache replaying arbitrary update batches on a      *)
(*              cache that starts empty;                                   *)
(*   Spec       the driver after NewDriver serving one request at a time   *)
(*              (CreateNetwork, DeleteNetwork), beside the OVSDB notifier, *)
(*              the bridge watcher, ovs-vswitchd, an administrator         *)
(*              changing the database out of band, and restarts of the     *)
(*              driver process;                                            *)
(*   SpecConc   two CreateNetwork handlers of gateway type running side by *)
(*              side, beside the notifier, the watcher and ovs-vswitchd;   *)
(*   SpecSync   NewDriver statement by statement (initDBCache), the        *)
(*              callbacks of the notifier, the watcher, and requests       *)
(*              served once NewDriver has returned;                        *)
(*   SpecJoin   CreateNetwork and Join, beside changes of the addresses of *)
(*              the bridge's link;                                         *)
(*   SpecWait   CreateNetwork alone, with the handler scheduled fairly     *)
(*              while it waits for the bridge's link.                      *)
(***************************************************************************)
EXTENDS Integers, Sequences, FiniteSets, TLC

VARIABLES
    ovsdbCache,   \* var ovsdbCache map[string]map[string]libovsdb.Row
    lastNew,      \* history: the last "new" image applied per (table, uuid)
    ovsdb,        \* the remote Open_vSwitch database (ovsdb-server)
    nextUuid,     \* how many row identifiers the server has handed out
    notif,        \* update notifications the server sent, not yet delivered
    update,       \* var update chan *libovsdb.TableUpdates (unbuffered)
    networks,     \* Driver.networks map[string]*NetworkState
    calls,        \* the request handlers in flight, one record per slot
    ovsService,   \* the companion gateway service (/usr/sbin/ovsopt.sh)
    links,        \* kernel links (bridge devices) and their addresses
    ctl,          \* process life and the counters that bound the model
    sync,         \* where initDBCache and the notifier's callbacks stand
    hist          \* history: what earlier calls did (read by no action guard)

vars == <<ovsdbCache, lastNew, ovsdb, nextUuid, notif, update, networks,
          calls, ovsService, links, ctl, sync, hist>>

driverVars == <<ovsdb, nextUuid, notif, update, networks, calls, ovsService,
                links, ctl, sync, hist>>

(***************************************************************************)
(* Rows and update batches (libovsdb.Row, RowUpdate, TableUpdates).        *)
(* A Row is its Fields map; Row{} (Fields == nil) is EmptyRow.             *)
(***************************************************************************)
EmptyRow == [nil |-> TRUE]

BridgeRow(name) == [name |-> name]

RowUpdate(old, new) == [Old |-> old, New |-> new]

Tables == {"Bridge", "Open_vSwitch"}

\* the cache right after initDBCache's make(map[string]map[string]libovsdb.Row)
EmptyCache == [t \in {} |-> [u \in {} |-> EmptyRow]]

\* one table of the cache after the rows of one TableUpdate are applied
populateTable_NoDelete(tableCache, rows) ==
    [u \in DOMAIN tableCache \cup {v \in DOMAIN rows : rows[v].New # EmptyRow} |->
        IF u \in DOMAIN rows /\ rows[u].New # EmptyRow THEN rows[u].New
        ELSE tableCache[u]]

populateTable(tableCache, rows) ==
    [u \in (DOMAIN tableCache \ {v \in DOMAIN rows : rows[v].New = EmptyRow})
           \cup {v \in DOMAIN rows : rows[v].New # EmptyRow} |->
        IF u \in DOMAIN rows THEN rows[u].New ELSE tableCache[u]]

\* populateCache(updates): every table of the batch gets a map, every row of
\* the batch is stored under its uuid, or deleted when its New image is empty
populateCache(cache, updates) ==
    [t \in DOMAIN cache \cup DOMAIN updates |->
        IF t \in DOMAIN updates
        THEN populateTable(IF t \in DOMAIN cache THEN cache[t]
                           ELSE [u \in {} |-> EmptyRow],
                           updates[t])
        ELSE cache[t]]

getTableCache(cache, tableName) ==
    IF tableName \in DOMAIN cache THEN cache[tableName] ELSE [u \in {} |-> EmptyRow]

(***************************************************************************)
(* SpecCache: populateCache replaying update batches on an empty cache.    *)
(***************************************************************************)
CacheUuids == {"u1", "u2"}

CacheRows == {EmptyRow, BridgeRow("r1"), BridgeRow("r2")}

\* the rows of one table of a batch: at least one row, as the server sends it
TableRowUpdates ==
    UNION {[us -> {RowUpdate(EmptyRow, n) : n \in CacheRows}] :
              us \in (SUBSET CacheUuids) \ {{}}}

Batches == UNION {[ts -> TableRowUpdates] : ts \in SUBSET Tables}

\* the cells (table, uuid) one batch touches
Touched(b) == {<<t, u>> \in Tables \X CacheUuids : t \in DOMAIN b /\ u \in DOMAIN b[t]}

\* one batch holding, for every cell touched so far, its last New image
LastImageBatch ==
    [t \in {c[1] : c \in DOMAIN lastNew} |->
        [u \in {c[2] : c \in {d \in DOMAIN lastNew : d[1] = t}} |->
            RowUpdate(EmptyRow, lastNew[<<t, u>>])]]

(***************************************************************************)
(* Program constants.                                                      *)
(***************************************************************************)
bridgePrefix == "ovsbr-"

ovsPortPrefix == "ovs-veth0-"

containerEthName == "eth"

optionKey == "com.docker.network.generic"

modeOption == "linker.net.ovs.bridge.mode"

bridgeNameOption == "linker.net.ovs.bridge.name"

typeOption == "linker.net.ovs.bridge.type"

networkNameOption == "linker.net.ovs.network.name"

modeNAT == "nat"

modeFlat == "flat"

type_sgw == "sgw"

type_pgw == "pgw"

defaultMTU == 1500

defaultMode == modeNAT

validModes == {modeNAT, modeFlat}

\* retries := 3 in initBridge
ifaceRetries == 3

(***************************************************************************)
(* Bounds of the model.                                                    *)
(***************************************************************************)
\* driver calls (CreateNetwork, DeleteNetwork) started in one behaviour
MaxCalls == 2

\* rows the server inserts into the Bridge table in one behaviour
MaxUuids == 2

\* out-of-band changes (ovs-vsctl del-br, ip addr on a bridge's link) in one
\* behaviour
MaxEnvOps == 1

\* starts of the driver process after the first one
MaxRestarts == 1

\* the request handlers that can run at the same time
Slots == {"h1", "h2"}

NetworkIDs == {"281746a33da5c97b", "5c97b281746a33da"}

(***************************************************************************)
(* Strings: strings.EqualFold, strings.Split, id[:5].                      *)
(***************************************************************************)
UpperCase == "ABCDEFGHIJKLMNOPQRSTUVWXYZ"

LowerCase == "abcdefghijklmnopqrstuvwxyz"

RECURSIVE IndexIn(_, _, _)
\* the index of the one-character string ch in s at or after i, 0 when absent
IndexIn(s, ch, i) ==
    IF i > Len(s) THEN 0
    ELSE IF SubSeq(s, i, i) = ch THEN i
    ELSE IndexIn(s, ch, i + 1)

FoldChar(ch) ==
    LET k == IndexIn(UpperCase, ch, 1)
    IN  IF k = 0 THEN ch ELSE SubSeq(LowerCase, k, k)

RECURSIVE FoldString(_)
FoldString(s) ==
    IF Len(s) = 0 THEN ""
    ELSE FoldChar(SubSeq(s, 1, 1)) \o FoldString(SubSeq(s, 2, Len(s)))

EqualFold_CaseSensitive(a, b) == a = b

EqualFold(a, b) == FoldString(a) = FoldString(b)

\* strings.Split(s, "/"): the parts between the separators
RECURSIVE Split(_)
Split(s) ==
    LET k == IndexIn(s, "/", 1)
    IN  IF k = 0 THEN <<s>>
        ELSE <<SubSeq(s, 1, k - 1)>> \o Split(SubSeq(s, k + 1, Len(s)))

truncateID(id) == SubSeq(id, 1, 5)

(***************************************************************************)
(* CreateNetwork requests (dknet.CreateNetworkRequest): NetworkID, the     *)
(* Options map, the nested generic-options map, and the gateway of the     *)
(* first IPv4 and IPv6 pool (an empty sequence: no pool).                  *)
(***************************************************************************)
EmptyMap == [k \in {} |-> ""]

\* f and S themselves, as values TLC holds enumerated
Tabulated(f) == f @@ EmptyMap

Enumerated(S) == DOMAIN Tabulated([x \in S |-> TRUE])

BridgeNames == Enumerated({bridgePrefix \o truncateID(id) : id \in NetworkIDs})


OptionValues(k) ==
    IF k = bridgeNameOption THEN {"ovsbr-5c97b"}
    ELSE IF k = modeOption THEN {modeFlat, "bogus"}
    ELSE IF k = typeOption THEN {type_sgw, "PGW"}
    ELSE {"gw1"}

\* the maps from some of the keys to values that OptionValues allows for them
Maps(keys) ==
    UNION {{m \in [ks -> UNION {OptionValues(k) : k \in ks}] :
               \A k \in ks : m[k] \in OptionValues(k)} :
              ks \in SUBSET keys}

AllRequests ==
    [NetworkID : NetworkIDs,
     Options   : Maps({bridgeNameOption, modeOption}),
     Generic   : Maps({networkNameOption, typeOption}),
     IPv4Data  : {<<>>, <<"10.1.1.1/24">>, <<"/24">>},
     IPv6Data  : {<<>>}]

\* the requests of the model: a request with no options and one IPv4 pool, changed
\* in one place (the options, the generic options, or the pool)
Requests ==
    Enumerated({r \in AllRequests :
        Cardinality({k \in {"Options", "Generic", "IPv4Data"} :
                        r[k] # (IF k = "IPv4Data" THEN <<"10.1.1.1/24">> ELSE EmptyMap)}) <= 1
        /\ Cardinality(DOMAIN r.Options) <= 1})

NoRequest == [NetworkID |-> ""]

Result(val, err) == [val |-> val, err |-> err]

truncateID_Whole(id) == id

getBridgeName_IgnoreOption(r) == bridgePrefix \o truncateID(r.NetworkID)

getBridgeName(r) ==
    IF bridgeNameOption \in DOMAIN r.Options THEN r.Options[bridgeNameOption]
    ELSE bridgePrefix \o truncateID(r.NetworkID)

getBridgeMode(r) ==
    IF modeOption \in DOMAIN r.Options
    THEN IF r.Options[modeOption] \notin validModes
         THEN Result("", "is not a valid mode")
         ELSE Result(r.Options[modeOption], "")
    ELSE Result(defaultMode, "")

\* the IPv4 gateway, when there is one, overwrites the IPv6 gateway
getGatewayIP(r) ==
    LET v6 == IF Len(r.IPv6Data) > 0 /\ r.IPv6Data[1] # "" THEN r.IPv6Data[1] ELSE ""
        gatewayIP == IF Len(r.IPv4Data) > 0 /\ r.IPv4Data[1] # "" THEN r.IPv4Data[1] ELSE v6
        parts == Split(gatewayIP)
    IN  IF gatewayIP = "" THEN [ip |-> "", mask |-> "", err |-> "No gateway IP found"]
        ELSE IF parts[1] = "" THEN [ip |-> "", mask |-> "", err |-> "Cannot split gateway IP address"]
        ELSE IF Len(parts) < 2 THEN [ip |-> "", mask |-> "", err |-> "panic: index out of range"]
        ELSE IF parts[2] = "" THEN [ip |-> "", mask |-> "", err |-> "Cannot split gateway IP address"]
        ELSE [ip |-> parts[1], mask |-> parts[2], err |-> ""]

getNetworkName(r) ==
    IF networkNameOption \in DOMAIN r.Generic THEN r.Generic[networkNameOption] ELSE ""

getNetworkType(r) ==
    IF typeOption \in DOMAIN r.Generic THEN r.Generic[typeOption] ELSE ""

isGatewayType(networkType) ==
    EqualFold(networkType, type_sgw) \/ EqualFold(networkType, type_pgw)

checkExecutable_NameOnly(networkType, networkName, running) ==
    IF ~isGatewayType(networkType) THEN ""
    ELSE IF Len(networkName) <= 0 THEN "options must specify network name for sgw or pgw type"
    ELSE ""

\* running: "ps -ef | grep /usr/sbin/ovsopt.sh | grep -v grep | wc -l" is not "0"
checkExecutable(networkType, networkName, running) ==
    IF ~isGatewayType(networkType) THEN ""
    ELSE IF Len(networkName) <= 0 THEN "options must specify network name for sgw or pgw type"
    ELSE IF ~running THEN ""
    ELSE "current node already run sgw or pgw process"

ConfigErrors ==
    {"is not a valid mode", "No gateway IP found", "Cannot split gateway IP address",
     "options must specify network name for sgw or pgw type",
     "current node already run sgw or pgw process"}

\* the first error of CreateNetwork's option parsing and precondition, "" when none
CreateNetworkCheck(r, running) ==
    IF getBridgeMode(r).err # "" THEN getBridgeMode(r).err
    ELSE IF getGatewayIP(r).err # "" THEN getGatewayIP(r).err
    ELSE checkExecutable(getNetworkType(r), getNetworkName(r), running)

NewNetworkState(r) ==
    [BridgeName        |-> getBridgeName(r),
     MTU               |-> defaultMTU,
     Mode              |-> getBridgeMode(r).val,
     Gateway           |-> getGatewayIP(r).ip,
     GatewayMask       |-> getGatewayIP(r).mask,
     FlatBindInterface |-> "",
     NetworkType       |-> getNetworkType(r),
     NetworkName       |-> getNetworkName(r)]

\* what CreateNetwork computes from each request of the model before it stores
\* anything: the error, with the companion process running or not, and the state
Parsed ==
    Tabulated([r \in Requests |->
        [err |-> Tabulated([running \in BOOLEAN |-> CreateNetworkCheck(r, running)]),
         ns  |-> NewNetworkState(r)]])

ServiceTypes == {""} \cup OptionValues(typeOption)

\* the service types of the model that runOvsScript and deleteBridge take for a
\* gateway type
gatewayTypes == Enumerated({t \in ServiceTypes : isGatewayType(t)})

Put(map, key, val) == [k \in DOMAIN map \cup {key} |-> IF k = key THEN val ELSE map[k]]

Drop(map, key) == [k \in DOMAIN map \ {key} |-> map[k]]


(***************************************************************************)
(* The remote database.  Bridge: uuid -> name; Port and Interface: the     *)
(* names of their rows; BridgeOpt: rows (name, service_type); bridges:     *)
(* the bridge set of the one Open_vSwitch row, whose uuid is RootUUID;      *)
(* root: the Open_vSwitch row exists (ovs-vsctl init has run).             *)
(* The server keeps names unique in Bridge and Port, refuses to leave a    *)
(* reference to a deleted Bridge row in the root row, and garbage-collects *)
(* a Bridge row (and its port) that the root row does not reference.       *)
(***************************************************************************)
RootUUID == "root"

UuidOf(n) == "u" \o ToString(n)

EmptyDb ==
    [Bridge    |-> [u \in {} |-> ""],
     Port      |-> {},
     Interface |-> {},
     BridgeOpt |-> {},
     bridges   |-> {},
     root      |-> TRUE]

DbBridgeNames(db) == {db.Bridge[u] : u \in DOMAIN db.Bridge}

RootRow(db) == [bridges |-> db.bridges]

\* a reply (one error string per result, "" for none) of n successful results
ReplyOK(n) == [i \in 1..n |-> ""]

\* the reply of a transaction whose first operation failed: the later results are null
ReplyOpError(n) == [i \in 1..n |-> IF i = 1 THEN "operation error" ELSE ""]

\* the reply of a transaction that failed at commit: one result more than operations
ReplyCommitError(n, msg) == [i \in 1..(n + 1) |-> IF i = n + 1 THEN msg ELSE ""]

\* the replies of a transaction the server did not commit for a reason of its own
\* (<<>>: Transact failed and returned no results)
RefusedReplies(n) == {<<>>, ReplyOpError(n), ReplyCommitError(n, "commit error")}

\* operations := {insertIntfOp, insertPortOp, insertBridgeOp, insertBridgeOptOp, mutateOp}
createOps == 5

\* operations := {deleteOp, deleteOptOp, mutateOp}
deleteOps == 3

\* the create transaction can commit: the names are free in Port, Interface and Bridge
DbCanCreate(db, name) ==
    /\ name \notin db.Port
    /\ name \notin db.Interface
    /\ name \notin DbBridgeNames(db)

\* the database after the create transaction commits
DbCreate(db, name, servicetype, rootUUID, uuid) ==
    IF rootUUID = RootUUID
    THEN [Bridge    |-> Put(db.Bridge, uuid, name),
          Port      |-> db.Port \cup {name},
          Interface |-> db.Interface \cup {name},
          BridgeOpt |-> db.BridgeOpt \cup {[name |-> name, service_type |-> servicetype]},
          bridges   |-> db.bridges \cup {uuid},
          root      |-> db.root]
    ELSE [db EXCEPT !.BridgeOpt = @ \cup {[name |-> name, service_type |-> servicetype]}]

\* the three operations of the delete transaction, before the commit
DbDeleteOps(db, name, bridgeUUID, rootUUID) ==
    [Bridge    |-> [u \in {v \in DOMAIN db.Bridge : db.Bridge[v] # name} |-> db.Bridge[u]],
     Port      |-> db.Port,
     Interface |-> db.Interface,
     BridgeOpt |-> {o \in db.BridgeOpt : o.name # name},
     bridges   |-> IF rootUUID = RootUUID THEN db.bridges \ {bridgeUUID} ELSE db.bridges,
     root      |-> db.root]

\* the delete transaction can commit: no reference to a deleted Bridge row is left
DbCanDelete(db, name, bridgeUUID, rootUUID) ==
    DbDeleteOps(db, name, bridgeUUID, rootUUID).bridges
        \subseteq DOMAIN DbDeleteOps(db, name, bridgeUUID, rootUUID).Bridge

\* the commit drops the Bridge rows the root row no longer references, and the
\* ports and interfaces of every Bridge row that is gone
DbCollect(old, db) ==
    LET kept == [u \in DOMAIN db.Bridge \cap db.bridges |-> db.Bridge[u]]
        gone == DbBridgeNames(old) \ {kept[u] : u \in DOMAIN kept}
    IN  [Bridge    |-> kept,
         Port      |-> db.Port \ gone,
         Interface |-> db.Interface \ gone,
         BridgeOpt |-> db.BridgeOpt,
         bridges   |-> db.bridges,
         root      |-> db.root]

DbDelete(db, name, bridgeUUID, rootUUID) ==
    DbCollect(db, DbDeleteOps(db, name, bridgeUUID, rootUUID))

\* ovs-vsctl del-br: the bridge, its port and interface, and the root reference
DbDelBr(db, name) ==
    DbCollect(db, [db EXCEPT !.bridges = {u \in @ : db.Bridge[u] # name}])

\* the update notification of a committed change of the monitored tables
BridgeUpdates(old, new) ==
    [u \in {v \in DOMAIN old.Bridge \cup DOMAIN new.Bridge :
               v \notin DOMAIN old.Bridge \/ v \notin DOMAIN new.Bridge} |->
        IF u \in DOMAIN new.Bridge
        THEN RowUpdate(EmptyRow, BridgeRow(new.Bridge[u]))
        ELSE RowUpdate(BridgeRow(old.Bridge[u]), EmptyRow)]

RootUpdates(old, new) ==
    [u \in (IF old.bridges = new.bridges /\ old.root = new.root THEN {}
            ELSE {RootUUID}) |->
        RowUpdate(IF old.root THEN RootRow(old) ELSE EmptyRow, RootRow(new))]

TableUpdates(old, new) ==
    [t \in {s \in Tables :
               DOMAIN (IF s = "Bridge" THEN BridgeUpdates(old, new)
                       ELSE RootUpdates(old, new)) # {}} |->
        IF t = "Bridge" THEN BridgeUpdates(old, new) ELSE RootUpdates(old, new)]

\* the notifications in flight after a commit that took the database from old to new
Notify(queue, old, new) ==
    IF DOMAIN TableUpdates(old, new) = {} THEN queue
    ELSE Append(queue, TableUpdates(old, new))

\* the reply of MonitorAll: every row of the monitored tables as a New image
MonitorAll(db) ==
    [t \in Tables |->
        IF t = "Bridge"
        THEN [u \in DOMAIN db.Bridge |-> RowUpdate(EmptyRow, BridgeRow(db.Bridge[u]))]
        ELSE [u \in (IF db.root THEN {RootUUID} ELSE {}) |->
                 RowUpdate(EmptyRow, RootRow(db))]]

(***************************************************************************)
(* Cache lookups.  Go iterates a map in no fixed order: a lookup that      *)
(* returns the first match can return any match.                           *)
(***************************************************************************)
\* the values getRootUUID can return
getRootUUID(cache) ==
    IF DOMAIN getTableCache(cache, "Open_vSwitch") = {} THEN {""}
    ELSE DOMAIN getTableCache(cache, "Open_vSwitch")

getBridgeUUIDForName_AnyRow(cache, name) ==
    IF DOMAIN getTableCache(cache, "Bridge") = {} THEN {""}
    ELSE DOMAIN getTableCache(cache, "Bridge")

\* the values getBridgeUUIDForName can return
getBridgeUUIDForName(cache, name) ==
    LET bridgeCache == getTableCache(cache, "Bridge")
        found == {key \in DOMAIN bridgeCache :
                     "name" \in DOMAIN bridgeCache[key] /\ bridgeCache[key].name = name}
    IN  IF found = {} THEN {""} ELSE found

\* len(reply[0].Rows) > 0 for the select of portExists
portExists(db, portName) == portName \in db.Port

\* the values getBridgeServiceType can return when its select is answered:
\* rets[0]["service_type"] of the matching rows, an error when there is none
getBridgeServiceType(db, bridgeName) ==
    IF {o \in db.BridgeOpt : o.name = bridgeName} = {}
    THEN {Result("", "no record with bridge name")}
    ELSE {Result(o.service_type, "") : o \in {p \in db.BridgeOpt : p.name = bridgeName}}

(***************************************************************************)
(* The checks of a transaction's reply.                                    *)
(***************************************************************************)
RECURSIVE FirstError(_)
\* the first non-empty error of a reply, "" when there is none
FirstError(reply) ==
    IF Len(reply) = 0 THEN ""
    ELSE IF Head(reply) # "" THEN Head(reply)
    ELSE FirstError(Tail(reply))

createReplyError_NoCount(reply, n) ==
    IF FirstError(reply) # "" THEN "Transaction Failed due to an error :" \o FirstError(reply)
    ELSE ""

\* createOvsdbBridge, after Transact: the error it returns, "" for nil
createReplyError(reply, n) ==
    IF Len(reply) < n
    THEN "Number of Replies should be atleast equal to number of Operations"
    ELSE IF FirstError(reply) # ""
    THEN "Transaction Failed due to an error :" \o FirstError(reply)
    ELSE ""

\* deleteBridge, after Transact: too few replies are logged and nothing more
deleteReplyError(reply, n) ==
    IF FirstError(reply) # ""
    THEN "Transaction Failed due to an error: " \o FirstError(reply)
    ELSE ""

(***************************************************************************)
(* State of the driver.                                                    *)
(***************************************************************************)
\* nothing waits on the update channel
NoUpdate == [none |-> TRUE]

\* a handler slot: op and pc say where the handler is; req, id, bn (bridgeName),
\* st (serviceType), tries are its locals; reply and txerr are what Transact
\* returned and what the transaction's issuer made of it; err is what the call
\* returned.  first, prev, txn, removed, conc, sterr and stop are history: what
\* the first portExists of addBridge saw, how the previous addBridge of the
\* same bridge ended, whether this call submitted a bridge transaction, whether
\* that transaction took rows out of the database, whether the call ran while
\* another gateway-type CreateNetwork was in flight, the error of deleteBridge's
\* getBridgeServiceType, and how its stopOvsService ended ("" when not called).
IdleCall ==
    [op |-> "idle", pc |-> "idle", req |-> NoRequest, id |-> "", bn |-> "",
     st |-> "", tries |-> 0, reply |-> <<>>, txerr |-> "", err |-> "",
     first |-> "", prev |-> "", txn |-> FALSE, removed |-> FALSE, conc |-> FALSE,
     sterr |-> "", stop |-> ""]

\* the caller has its answer: the slot of a returned call is free again at the
\* next step of the system
Recycled ==
    [c \in Slots |-> IF calls[c].pc = "done" THEN IdleCall ELSE calls[c]]

Free(c) == calls[c].pc \in {"idle", "done"}

\* another handler is working on the network id
IdBusy(id) == \E c \in Slots : ~Free(c) /\ calls[c].id = id

GatewayCreate(call) ==
    call.op = "create" /\ Parsed[call.req].ns.NetworkType \in gatewayTypes

Returned(call, err) == [call EXCEPT !.pc = "done", !.err = err]

\* initDBCache has returned: the reply of MonitorAll is applied, the watcher runs
\* and no callback of the notifier is in progress.  boot is the statement
\* initDBCache is at, initCache the reply of MonitorAll it holds, cbs the
\* callbacks OvsdbNotifier.Update in progress, each the task of one
\* notification (batch: its tableUpdates, pc: the statement the task is at,
\* applied: its populateCache has returned)
SyncUp == [boot |-> "up", initCache |-> NoUpdate, cbs |-> EmptyMap, watching |-> TRUE]

\* no driver process
SyncOff == [boot |-> "off", initCache |-> NoUpdate, cbs |-> EmptyMap, watching |-> FALSE]

\* the server sends update notifications: MonitorAll has been answered
Monitoring == ctl.alive /\ sync.boot \notin {"off", "MonitorAll"}

\* the kernel has no link of the plugin.  dev: the bridge devices; addr: those
\* with an IPv4 address; ip: the addresses of a device as the kernel lists them
\* (IPv4 before IPv6); veth: the virtual pairs; up: the bridge devices that are
\* administratively up
NoLinks == [dev |-> {}, addr |-> {}, ip |-> [d \in {} |-> <<>>], veth |-> {}, up |-> {}]

\* dknet.JoinResponse of the last Join, before any Join or when it returned nil
NoJoin == [SrcName |-> "", DstPrefix |-> "", Gateway |-> ""]

\* the plugin serves requests: NewDriver has returned
Serving == ctl.alive /\ sync.boot = "up"

\* the driver process is gone: its memory and its connection with it
Exited ==
    /\ ovsdbCache' = EmptyCache
    /\ sync' = SyncOff
    /\ notif' = <<>>
    /\ update' = NoUpdate
    /\ networks' = EmptyMap
    /\ calls' = [c \in Slots |-> IdleCall]

\* the state after NewDriver, the cache aside
DriverInit ==
    /\ ovsdb = EmptyDb
    /\ nextUuid = 0
    /\ lastNew = [c \in {} |-> EmptyRow]
    /\ notif = <<>>
    /\ update = NoUpdate
    /\ networks = EmptyMap
    /\ calls = [c \in Slots |-> IdleCall]
    /\ ovsService = [running |-> FALSE, starts |-> 0]
    /\ links = NoLinks
    /\ ctl = [alive |-> TRUE, calls |-> 0, env |-> 0, restarts |-> 0]
    /\ sync = SyncUp
    /\ hist = [lastAdd |-> [b \in BridgeNames |-> "none"], created |-> EmptyMap,
               prior |-> EmptyMap, concOk |-> 0, join |-> NoJoin]

\* the state after NewDriver: initDBCache has applied the reply of MonitorAll
Init ==
    /\ DriverInit
    /\ ovsdbCache = populateCache(EmptyCache, MonitorAll(EmptyDb))

(***************************************************************************)
(* CreateNetwork                                                           *)
(***************************************************************************)
CreateNetworkStore_BeforeCheck(nets, r, err) ==
    Put(nets, r.NetworkID, Parsed[r].ns)

CreateNetworkStore_Never(nets, r, err) == nets

\* d.networks[r.NetworkID] = ns, reached only when no check returned an error
CreateNetworkStore(nets, r, err) ==
    IF err = "" THEN Put(nets, r.NetworkID, Parsed[r].ns) ELSE nets

CreateNetworkRollback_Keep(nets, id) == nets

\* delete(d.networks, r.NetworkID) when initBridge returned an error
CreateNetworkRollback(nets, id) == Drop(nets, id)

\* CreateNetwork up to the call of initBridge
CreateNetwork(c, r) ==
    /\ Serving
    /\ Free(c)
    /\ ctl.calls < MaxCalls
    /\ ~IdBusy(r.NetworkID)
    /\ LET err  == Parsed[r].err[ovsService.running]
           gw   == Parsed[r].ns.NetworkType \in gatewayTypes
           conc == gw /\ \E o \in Slots \ {c} : ~Free(o) /\ GatewayCreate(calls[o])
           call == [IdleCall EXCEPT !.op = "create", !.req = r, !.id = r.NetworkID,
                                    !.bn = Parsed[r].ns.BridgeName, !.conc = conc]
       IN  /\ networks' = CreateNetworkStore(networks, r, err)
           /\ calls' = [o \in Slots |->
                          IF o = c
                          THEN IF err = "" THEN [call EXCEPT !.pc = "addBridge"]
                               ELSE Returned(call, err)
                          ELSE IF conc /\ ~Free(o) /\ GatewayCreate(calls[o])
                          THEN [calls[o] EXCEPT !.conc = TRUE]
                          ELSE Recycled[o]]
           /\ hist' = IF gw /\ ~conc THEN [hist EXCEPT !.concOk = 0] ELSE hist
    /\ ctl' = [ctl EXCEPT !.calls = @ + 1]
    /\ UNCHANGED <<ovsdbCache, lastNew, sync, ovsdb, nextUuid, notif, update, ovsService,
                   links>>

\* how an addBridge of this bridge ended, for the next one
AddResult(ok) == IF ok THEN "ok" ELSE "err"

\* addBridge returned err: initBridge returns it, CreateNetwork rolls back and returns it
AddBridgeFailed(c, call, err) ==
    /\ calls' = [Recycled EXCEPT ![c] = Returned(call, err)]
    /\ networks' = CreateNetworkRollback(networks, call.id)
    /\ hist' = [hist EXCEPT !.lastAdd[call.bn] = AddResult(FALSE)]

\* addBridge returned nil: initBridge goes on to wait for the kernel link
AddBridgeDone(c, call) ==
    /\ calls' = [Recycled EXCEPT ![c] = [call EXCEPT !.pc = "validateIface"]]
    /\ networks' = networks
    /\ hist' = [hist EXCEPT !.lastAdd[call.bn] = AddResult(TRUE)]

\* addBridge: the first portExists
AddBridge(c) ==
    /\ ctl.alive
    /\ calls[c].pc = "addBridge"
    /\ \E answered \in BOOLEAN :
          LET call == [calls[c] EXCEPT !.prev = hist.lastAdd[calls[c].bn],
                                       !.first = IF ~answered THEN "error"
                                                 ELSE IF portExists(ovsdb, calls[c].bn)
                                                 THEN "exists" ELSE "absent"]
          IN  IF ~answered
              THEN AddBridgeFailed(c, call, "Transaction Failed due to an error")
              ELSE IF portExists(ovsdb, call.bn)
              THEN AddBridgeDone(c, call)
              ELSE /\ calls' = [Recycled EXCEPT ![c] = [call EXCEPT !.pc = "createBridge"]]
                   /\ UNCHANGED <<networks, hist>>
    /\ UNCHANGED <<ovsdbCache, lastNew, sync, ovsdb, nextUuid, notif, update, ovsService,
                   links, ctl>>

\* addBridge: createBridgeIface, which logs the error of createOvsdbBridge and
\* returns nil
CreateBridge(c) ==
    /\ ctl.alive
    /\ calls[c].pc = "createBridge"
    /\ nextUuid < MaxUuids
    /\ \E rootUUID \in getRootUUID(ovsdbCache),
          sent \in {ReplyOK(createOps)} \cup RefusedReplies(createOps) :
          LET call   == calls[c]
              commit == sent = ReplyOK(createOps) /\ DbCanCreate(ovsdb, call.bn)
              reply  == IF sent = ReplyOK(createOps) /\ ~commit
                        THEN ReplyCommitError(createOps, "constraint violation")
                        ELSE sent
              newdb  == IF commit
                        THEN DbCreate(ovsdb, call.bn, networks[call.id].NetworkType,
                                      rootUUID, UuidOf(nextUuid + 1))
                        ELSE ovsdb
          IN  /\ ovsdb' = newdb
              /\ nextUuid' = IF commit THEN nextUuid + 1 ELSE nextUuid
              /\ notif' = Notify(notif, ovsdb, newdb)
              /\ calls' = [Recycled EXCEPT ![c] =
                             [call EXCEPT !.pc = "recheck", !.txn = TRUE, !.reply = reply,
                                          !.txerr = createReplyError(reply, createOps)]]
    /\ UNCHANGED <<ovsdbCache, lastNew, sync, update, networks, ovsService, links, ctl, hist>>

AddBridgeRecheck_Skip(c) ==
    /\ ctl.alive
    /\ calls[c].pc = "recheck"
    /\ AddBridgeDone(c, [calls[c] EXCEPT !.reply = <<>>, !.txerr = ""])
    /\ UNCHANGED <<ovsdbCache, lastNew, sync, ovsdb, nextUuid, notif, update, ovsService,
                   links, ctl>>

\* addBridge: the second portExists, after createBridgeIface
AddBridgeRecheck(c) ==
    /\ ctl.alive
    /\ calls[c].pc = "recheck"
    /\ \E answered \in BOOLEAN :
          LET call == [calls[c] EXCEPT !.reply = <<>>, !.txerr = ""]
          IN  IF ~answered
              THEN AddBridgeFailed(c, call, "Transaction Failed due to an error")
              ELSE IF portExists(ovsdb, call.bn)
              THEN AddBridgeDone(c, call)
              ELSE AddBridgeFailed(c, call, "Error creating Bridge")
    /\ UNCHANGED <<ovsdbCache, lastNew, sync, ovsdb, nextUuid, notif, update, ovsService,
                   links, ctl>>

\* validateIface: net.InterfaceByName finds the link
validateIface(ifaceStr) == ifaceStr \in links.dev

ValidateIface_Unbounded(c) ==
    /\ ctl.alive
    /\ calls[c].pc = "validateIface"
    /\ LET call == calls[c]
       IN  IF validateIface(call.bn)
           THEN calls' = [Recycled EXCEPT ![c] = [call EXCEPT !.pc = "configure"]]
           ELSE calls' = [Recycled EXCEPT ![c] =
                            [call EXCEPT !.tries = IF @ > ifaceRetries THEN @ ELSE @ + 1]]
    /\ UNCHANGED <<ovsdbCache, lastNew, sync, ovsdb, nextUuid, notif, update, ovsService,
                   links, ctl, hist, networks>>

\* initBridge: one round of the loop that waits for the bridge's link
ValidateIface(c) ==
    /\ ctl.alive
    /\ calls[c].pc = "validateIface"
    /\ LET call == calls[c]
       IN  IF validateIface(call.bn)
           THEN /\ calls' = [Recycled EXCEPT ![c] = [call EXCEPT !.pc = "configure"]]
                /\ networks' = networks
           ELSE IF call.tries + 1 < ifaceRetries
           THEN /\ calls' = [Recycled EXCEPT ![c] = [call EXCEPT !.tries = @ + 1]]
                /\ networks' = networks
           ELSE /\ calls' = [Recycled EXCEPT ![c] =
                               Returned([call EXCEPT !.tries = @ + 1],
                                        "Could not find a link for the OVS bridge")]
                /\ networks' = CreateNetworkRollback(networks, call.id)
    /\ UNCHANGED <<ovsdbCache, lastNew, sync, ovsdb, nextUuid, notif, update, ovsService,
                   links, ctl, hist>>

\* StartOvsService(command): the service unit is written and started, or an error
StartOvsService(svc, ok) ==
    IF ok THEN [running |-> TRUE, starts |-> svc.starts + 1] ELSE svc

\* stopOvsService(): the service unit is stopped and removed, or an error
stopOvsService(svc, ok) ==
    IF ok THEN [svc EXCEPT !.running = FALSE] ELSE svc

runOvsScript_Always(svc, networkType, ok) == StartOvsService(svc, ok)

\* runOvsScript: only a gateway type starts the service; its error is logged
runOvsScript(svc, networkType, ok) ==
    IF networkType \notin gatewayTypes THEN svc ELSE StartOvsService(svc, ok)

\* history: the bridge name of a network created without a bridge-name option,
\* and the gateway-type creations that succeeded while another one was running
Created(call) ==
    [hist EXCEPT
       !.created = IF bridgeNameOption \in DOMAIN call.req.Options
                   THEN Drop(@, call.id) ELSE Put(@, call.id, call.bn),
       !.prior   = Drop(@, call.id),
       !.concOk  = IF call.conc THEN @ + 1 ELSE @]

\* the address is an IPv4 address
IsIPv4(address) == IndexIn(address, ".", 1) # 0

\* the IPv4 addresses of a list, in its order
IPv4Of(addrs) == SelectSeq(addrs, IsIPv4)

\* the IPv6 addresses of a list, in its order
IPv6Of(addrs) == SelectSeq(addrs, LAMBDA a : ~IsIPv4(a))

\* the addresses of the link name
AddrsOf(ip, name) == IF name \in DOMAIN ip THEN ip[name] ELSE <<>>

\* netlink.AddrAdd of setInterfaceIP: the kernel refuses an address the link has
\* and lists a new IPv4 address after the IPv4 addresses the link has
AddrAdd(ip, name, address) ==
    IF \E i \in 1..Len(AddrsOf(ip, name)) : AddrsOf(ip, name)[i] = address THEN ip
    ELSE Put(ip, name, IPv4Of(AddrsOf(ip, name)) \o <<address>> \o IPv6Of(AddrsOf(ip, name)))

\* initBridge after the link is found: the address and NAT rule of nat mode
\* (log.Fatalf when the link or the address is missing or iptables fails),
\* interfaceUp (netlink.LinkSetUp, or a panic in the logging of the error of
\* netlink.LinkByName), runOvsScript; then CreateNetwork returns
ConfigureBridge(c) ==
    /\ ctl.alive
    /\ calls[c].pc = "configure"
    /\ \E addrOk, natOk, upOk, startOk \in BOOLEAN :
          LET call    == calls[c]
              ns      == networks[call.id]
              present == call.bn \in links.dev
              nat     == ns.Mode = modeNAT
              addr    == IF nat /\ present /\ addrOk THEN links.addr \cup {call.bn}
                         ELSE links.addr
              fatal   == nat /\ (~present \/ call.bn \notin addr \/ ~natOk)
          IN  /\ links' = [links EXCEPT
                              !.addr = addr,
                              !.ip = IF nat /\ present /\ addrOk
                                     THEN AddrAdd(@, call.bn,
                                                  ns.Gateway \o "/" \o ns.GatewayMask)
                                     ELSE @,
                              !.up = IF ~fatal /\ present /\ upOk
                                     THEN @ \cup {call.bn} ELSE @]
              /\ IF fatal
                 THEN /\ Exited
                      /\ ctl' = [ctl EXCEPT !.alive = FALSE]
                      /\ UNCHANGED <<ovsService, hist>>
                 ELSE /\ UNCHANGED <<ovsdbCache, notif, update, ctl, sync>>
                      /\ IF ~present
                         THEN \* interfaceUp: iface.Attrs() on the nil link panics
                              /\ calls' = [Recycled EXCEPT ![c] = Returned(call, "panic")]
                              /\ UNCHANGED <<networks, ovsService, hist>>
                         ELSE IF ~upOk
                         THEN /\ calls' = [Recycled EXCEPT ![c] =
                                             Returned(call, "Error enabling bridge")]
                              /\ networks' = CreateNetworkRollback(networks, call.id)
                              /\ UNCHANGED <<ovsService, hist>>
                         ELSE /\ calls' = [Recycled EXCEPT ![c] = Returned(call, "")]
                              /\ networks' = networks
                              /\ ovsService' = runOvsScript(ovsService, ns.NetworkType, startOk)
                              /\ hist' = Created(call)
    /\ UNCHANGED <<lastNew, ovsdb, nextUuid>>

(***************************************************************************)
(* DeleteNetwork                                                           *)
(***************************************************************************)
DeleteNetworkBridgeName_FromState(nets, id) ==
    IF id \in DOMAIN nets THEN nets[id].BridgeName ELSE ""

\* bridgeName := bridgePrefix + truncateID(r.NetworkID)
DeleteNetworkBridgeName(nets, id) == bridgePrefix \o truncateID(id)

\* DeleteNetwork up to deleteBridge's getBridgeServiceType, whose error is logged
DeleteNetwork(c, id) ==
    /\ Serving
    /\ Free(c)
    /\ ctl.calls < MaxCalls
    /\ ~IdBusy(id)
    /\ \E answered \in BOOLEAN :
       \E got \in getBridgeServiceType(ovsdb, DeleteNetworkBridgeName(networks, id)) :
          calls' = [Recycled EXCEPT ![c] =
                      [IdleCall EXCEPT !.op = "delete", !.pc = "deleteBridge", !.id = id,
                                       !.bn = DeleteNetworkBridgeName(networks, id),
                                       !.st = IF answered THEN got.val ELSE "",
                                       !.sterr = IF answered THEN got.err
                                                 ELSE "Number of Replies should be at least equal to number of Operations"]]
    /\ ctl' = [ctl EXCEPT !.calls = @ + 1]
    /\ UNCHANGED <<ovsdbCache, lastNew, sync, ovsdb, nextUuid, notif, update, networks,
                   ovsService, links, hist>>

DeleteNetworkForget_Always(nets, id, err) == Drop(nets, id)

\* delete(d.networks, r.NetworkID), reached only when deleteBridge returned nil
DeleteNetworkForget(nets, id, err) == IF err = "" THEN Drop(nets, id) ELSE nets

deleteBridgeReturn_StopError(err, stopFailed) ==
    IF err = "" /\ stopFailed THEN "stop ovs service error" ELSE err

\* what deleteBridge returns once it is past the checks of the reply (err is
\* "" there): the error of stopOvsService is logged and nil is returned
deleteBridgeReturn(err, stopFailed) == err

\* deleteBridge after the service type: the bridge uuid from the cache, the
\* transaction, stopOvsService for a gateway type; then DeleteNetwork returns
DeleteBridge(c) ==
    /\ ctl.alive
    /\ calls[c].pc = "deleteBridge"
    /\ \E bridgeUUID \in getBridgeUUIDForName(ovsdbCache, calls[c].bn),
          rootUUID \in getRootUUID(ovsdbCache),
          sent \in {ReplyOK(deleteOps)} \cup RefusedReplies(deleteOps),
          stopOk \in BOOLEAN :
          LET call   == calls[c]
              found  == bridgeUUID # ""
              commit == /\ found
                        /\ sent = ReplyOK(deleteOps)
                        /\ DbCanDelete(ovsdb, call.bn, bridgeUUID, rootUUID)
              reply  == IF ~found THEN <<>>
                        ELSE IF sent = ReplyOK(deleteOps) /\ ~commit
                        THEN ReplyCommitError(deleteOps, "referential integrity violation")
                        ELSE sent
              txerr  == IF ~found THEN "" ELSE deleteReplyError(reply, deleteOps)
              early  == IF ~found THEN "Unable to find a bridge uuid by name" ELSE txerr
              stops  == early = "" /\ call.st \in gatewayTypes
              err    == deleteBridgeReturn(early, stops /\ ~stopOk)
              newdb  == IF commit THEN DbDelete(ovsdb, call.bn, bridgeUUID, rootUUID)
                        ELSE ovsdb
          IN  /\ ovsdb' = newdb
              /\ notif' = Notify(notif, ovsdb, newdb)
              /\ calls' = [Recycled EXCEPT ![c] =
                             Returned([call EXCEPT
                                         !.txn = found, !.reply = reply,
                                         !.txerr = txerr,
                                         !.removed = newdb # ovsdb,
                                         !.stop = IF ~stops THEN ""
                                                  ELSE IF stopOk THEN "ok" ELSE "error"],
                                      err)]
              /\ networks' = DeleteNetworkForget(networks, call.id, err)
              /\ ovsService' = IF stops
                               THEN stopOvsService(ovsService, stopOk)
                               ELSE ovsService
              /\ hist' = [hist EXCEPT
                            !.lastAdd = [b \in BridgeNames |->
                                            IF b \in ovsdb.Port \ newdb.Port THEN "none" ELSE @[b]]]
    /\ UNCHANGED <<ovsdbCache, lastNew, sync, nextUuid, update, links, ctl>>

(***************************************************************************)
(* The notifier and the bridge watcher                                     *)
(***************************************************************************)
\* OvsdbNotifier.Update: populateCache, then the send on the unbuffered channel,
\* which blocks until monitorBridges receives
NotifierUpdate ==
    /\ ctl.alive
    /\ notif # <<>>
    /\ update = NoUpdate
    /\ ovsdbCache' = populateCache(ovsdbCache, Head(notif))
    /\ update' = Head(notif)
    /\ notif' = Tail(notif)
    /\ calls' = Recycled
    /\ UNCHANGED <<lastNew, sync, ovsdb, nextUuid, networks, ovsService, links, ctl, hist>>

monitorBridgesNames_Deleted(currUpdate) ==
    IF "Bridge" \notin DOMAIN currUpdate THEN {}
    ELSE {currUpdate["Bridge"][u].Old.name :
             u \in {v \in DOMAIN currUpdate["Bridge"] :
                       /\ currUpdate["Bridge"][v].New = EmptyRow
                       /\ "name" \in DOMAIN currUpdate["Bridge"][v].Old}}

\* the bridge names monitorBridges calls createOvsdbBridge for: the Old name of
\* every Bridge row of the batch whose New image is not empty
monitorBridgesNames(currUpdate) ==
    IF "Bridge" \notin DOMAIN currUpdate THEN {}
    ELSE {currUpdate["Bridge"][u].Old.name :
             u \in {v \in DOMAIN currUpdate["Bridge"] :
                       /\ currUpdate["Bridge"][v].New # EmptyRow
                       /\ "name" \in DOMAIN currUpdate["Bridge"][v].Old}}

\* the batch monitorBridges still has to go through once it has handled name
monitorBridgesRest(currUpdate, name) ==
    [t \in DOMAIN currUpdate |->
        IF t # "Bridge" THEN currUpdate[t]
        ELSE [u \in {v \in DOMAIN currUpdate[t] :
                        ~(/\ currUpdate[t][v].New # EmptyRow
                          /\ "name" \in DOMAIN currUpdate[t][v].Old
                          /\ currUpdate[t][v].Old.name = name)} |-> currUpdate[t][u]]]

\* monitorBridges, holding the batch it received (update): one createOvsdbBridge
\* for a row whose New image is not empty and whose Old image carries a name,
\* with the service type of BridgeOpt or "none"; back to the receive when no
\* such row is left.  The server sends an Old image with a name for a deleted
\* row, whose New image is empty, and for a row whose name changed, which no
\* transaction of the driver or of ovs-vsctl does.
MonitorBridges ==
    /\ ctl.alive
    /\ sync.watching
    /\ update # NoUpdate
    /\ IF monitorBridgesNames(update) = {}
       THEN /\ update' = NoUpdate
            /\ UNCHANGED <<ovsdb, nextUuid, notif>>
       ELSE /\ nextUuid < MaxUuids
            /\ \E name \in monitorBridgesNames(update) :
               \E rootUUID \in getRootUUID(ovsdbCache),
                  st \in getBridgeServiceType(ovsdb, name),
                  sent \in {ReplyOK(createOps)} \cup RefusedReplies(createOps) :
                  LET commit == sent = ReplyOK(createOps) /\ DbCanCreate(ovsdb, name)
                      newdb  == IF commit
                                THEN DbCreate(ovsdb, name,
                                              IF st.err # "" THEN "none" ELSE st.val,
                                              rootUUID, UuidOf(nextUuid + 1))
                                ELSE ovsdb
                  IN  /\ ovsdb' = newdb
                      /\ nextUuid' = IF commit THEN nextUuid + 1 ELSE nextUuid
                      /\ notif' = Notify(notif, ovsdb, newdb)
                      /\ update' = monitorBridgesRest(update, name)
    /\ calls' = Recycled
    /\ UNCHANGED <<ovsdbCache, lastNew, sync, networks, ovsService, links, ctl, hist>>

(***************************************************************************)
(* The environment: the administrator, ovs-vswitchd, the process manager   *)
(***************************************************************************)
\* ovs-vsctl del-br name
DelBr(name) ==
    /\ ctl.env < MaxEnvOps
    /\ name \in DbBridgeNames(ovsdb)
    /\ ovsdb' = DbDelBr(ovsdb, name)
    /\ notif' = IF Monitoring THEN Notify(notif, ovsdb, DbDelBr(ovsdb, name)) ELSE notif
    /\ ctl' = [ctl EXCEPT !.env = @ + 1]
    /\ hist' = [hist EXCEPT !.lastAdd[name] = "none"]
    /\ calls' = Recycled
    /\ UNCHANGED <<ovsdbCache, lastNew, sync, nextUuid, update, networks, ovsService, links>>

\* ovs-vswitchd creates the device of a bridge of the database
LinkAdd(name) ==
    /\ name \in DbBridgeNames(ovsdb)
    /\ name \notin links.dev
    /\ links' = [links EXCEPT !.dev = @ \cup {name}]
    /\ calls' = Recycled
    /\ UNCHANGED <<ovsdbCache, lastNew, sync, ovsdb, nextUuid, notif, update, networks, ovsService, ctl, hist>>

\* ovs-vswitchd removes the device of a bridge that left the database
LinkDel(name) ==
    /\ name \notin DbBridgeNames(ovsdb)
    /\ name \in links.dev
    /\ links' = [links EXCEPT !.dev = @ \ {name}, !.addr = @ \ {name},
                              !.ip = Drop(@, name), !.up = @ \ {name}]
    /\ calls' = Recycled
    /\ UNCHANGED <<ovsdbCache, lastNew, sync, ovsdb, nextUuid, notif, update, networks, ovsService, ctl, hist>>

\* the driver process is killed
Kill ==
    /\ ctl.alive
    /\ ctl.restarts < MaxRestarts
    /\ Exited
    /\ ctl' = [ctl EXCEPT !.alive = FALSE]
    /\ UNCHANGED <<lastNew, ovsdb, nextUuid, ovsService, links, hist>>

\* NewDriver: an empty networks map, and initDBCache applying the reply of MonitorAll
NewDriver ==
    /\ ~ctl.alive
    /\ ctl.restarts < MaxRestarts
    /\ ovsdbCache' = populateCache(EmptyCache, MonitorAll(ovsdb))
    /\ sync' = SyncUp
    /\ networks' = EmptyMap
    /\ ctl' = [ctl EXCEPT !.alive = TRUE, !.restarts = @ + 1]
    /\ hist' = [hist EXCEPT !.prior = hist.created @@ @, !.created = EmptyMap]
    /\ UNCHANGED <<lastNew, ovsdb, nextUuid, notif, update, calls, ovsService, links>>

\* the slot of the handler when the driver serves one call at a time
Serial == {"h1"}

\* one call at a time, with the notifier, the watcher and the environment
\* running beside it
Next ==
    \/ \E c \in Serial, r \in Requests : CreateNetwork(c, r)
    \/ \E c \in Serial : AddBridge(c)
    \/ \E c \in Serial : CreateBridge(c)
    \/ \E c \in Serial : AddBridgeRecheck(c)
    \/ \E c \in Serial : ValidateIface(c)
    \/ \E c \in Serial : ConfigureBridge(c)
    \/ \E c \in Serial, id \in NetworkIDs : DeleteNetwork(c, id)
    \/ \E c \in Serial : DeleteBridge(c)
    \/ NotifierUpdate
    \/ MonitorBridges
    \/ \E name \in BridgeNames : DelBr(name)
    \/ \E name \in BridgeNames : LinkAdd(name)
    \/ \E name \in BridgeNames : LinkDel(name)
    \/ Kill
    \/ NewDriver

Spec == Init /\ [][Next]_vars

(***************************************************************************)
(* SpecConc: two CreateNetwork handlers of gateway type side by side.      *)
(***************************************************************************)
\* the requests of a gateway type that name their network
GatewayRequests ==
    Enumerated({r \in Requests :
                   /\ networkNameOption \in DOMAIN r.Generic
                   /\ Parsed[r].ns.NetworkType \in gatewayTypes})

\* a new handler takes the first free slot
FirstFree(c) == Free(c) /\ (c = "h1" \/ ~Free("h1"))

NextConc ==
    \/ \E c \in Slots, r \in GatewayRequests : FirstFree(c) /\ CreateNetwork(c, r)
    \/ \E c \in Slots : AddBridge(c)
    \/ \E c \in Slots : CreateBridge(c)
    \/ \E c \in Slots : AddBridgeRecheck(c)
    \/ \E c \in Slots : ValidateIface(c)
    \/ \E c \in Slots : ConfigureBridge(c)
    \/ NotifierUpdate
    \/ MonitorBridges
    \/ \E name \in BridgeNames : LinkAdd(name)

SpecConc == Init /\ [][NextConc]_vars

(***************************************************************************)
(* SpecSync: NewDriver from the first statement of initDBCache on, the     *)
(* callbacks of the notifier one statement at a time, the watcher, an      *)
(* administrator initialising the database and deleting a bridge, and then *)
(* the driver serving requests with no options while ovs-vswitchd is down  *)
(* (no link appears).  The database may hold a bridge of an earlier life.  *)
(***************************************************************************)
\* a bridge left in the database by an earlier run of the plugin
EarlierDb == DbCreate(EmptyDb, "ovsbr-28174", "", RootUUID, UuidOf(1))

\* the database before ovs-vsctl init: no Open_vSwitch row yet
UninitDb == [EmptyDb EXCEPT !.root = FALSE]

\* initDBCache has made the channel and the empty cache and registered the
\* notifier; MonitorAll is its next statement
InitSync ==
    /\ ovsdb \in {EmptyDb, EarlierDb, UninitDb}
    /\ nextUuid = Cardinality(DOMAIN ovsdb.Bridge)
    /\ ovsdbCache = EmptyCache
    /\ lastNew = [c \in {} |-> EmptyRow]
    /\ notif = <<>>
    /\ update = NoUpdate
    /\ networks = EmptyMap
    /\ calls = [c \in Slots |-> IdleCall]
    /\ ovsService = [running |-> FALSE, starts |-> 0]
    /\ links = NoLinks
    /\ ctl = [alive |-> TRUE, calls |-> 0, env |-> 0, restarts |-> 0]
    /\ sync = [boot |-> "MonitorAll", initCache |-> NoUpdate, cbs |-> EmptyMap,
               watching |-> FALSE]
    /\ hist = [lastAdd |-> [b \in BridgeNames |->
                              IF b \in DbBridgeNames(ovsdb) THEN "ok" ELSE "none"],
               created |-> EmptyMap, prior |-> EmptyMap, concOk |-> 0, join |-> NoJoin]

\* initDBCache: MonitorAll.  The server answers with every row and sends update
\* notifications from then on; with no answer, *initCache is a nil dereference
InitMonitorAll ==
    /\ ctl.alive
    /\ sync.boot = "MonitorAll"
    /\ \E answered \in BOOLEAN :
          IF answered
          THEN /\ sync' = [sync EXCEPT !.boot = "populateCache",
                                       !.initCache = MonitorAll(ovsdb)]
               /\ UNCHANGED <<ovsdbCache, notif, update, networks, calls, ctl>>
          ELSE /\ Exited
               /\ ctl' = [ctl EXCEPT !.alive = FALSE]
    /\ UNCHANGED <<lastNew, ovsdb, nextUuid, ovsService, links, hist>>

\* initDBCache: populateCache(*initCache) returns
InitPopulateCache ==
    /\ ctl.alive
    /\ sync.boot = "populateCache"
    /\ ovsdbCache' = populateCache(ovsdbCache, sync.initCache)
    /\ sync' = [sync EXCEPT !.boot = "monitorBridges", !.initCache = NoUpdate]
    /\ UNCHANGED <<lastNew, ovsdb, nextUuid, notif, update, networks, calls, ovsService,
                   links, ctl, hist>>

\* initDBCache: go ovsdber.monitorBridges()
InitMonitorBridges ==
    /\ ctl.alive
    /\ sync.boot = "monitorBridges"
    /\ sync' = [sync EXCEPT !.boot = "getRootUUID", !.watching = TRUE]
    /\ UNCHANGED <<ovsdbCache, lastNew, ovsdb, nextUuid, notif, update, networks, calls,
                   ovsService, links, ctl, hist>>

InitWaitOver_NoWait(cache) == TRUE

\* for ovsdber.getRootUUID() == "" { time.Sleep(...) } ends
InitWaitOver(cache) == getRootUUID(cache) # {""}

\* initDBCache: the loop that sleeps while getRootUUID() == "" is left, and
\* NewDriver returns
InitWait ==
    /\ ctl.alive
    /\ sync.boot = "getRootUUID"
    /\ InitWaitOver(ovsdbCache)
    /\ sync' = [sync EXCEPT !.boot = "up"]
    /\ UNCHANGED <<ovsdbCache, lastNew, ovsdb, nextUuid, notif, update, networks, calls,
                   ovsService, links, ctl, hist>>

\* the tasks the connection runs callbacks in: one per update notification of a
\* bridge transaction of the driver or the administrator
Tasks == 1..(MaxUuids + MaxCalls + MaxEnvOps)

\* the callbacks in populateCache, and initDBCache (0) when it is in populateCache
Writing ==
    {n \in DOMAIN sync.cbs : sync.cbs[n].pc = "populateCache"}
        \cup (IF sync.boot = "populateCache" THEN {0} ELSE {})

\* the connection delivers the next notification: OvsdbNotifier.Update is called
\* in a task of its own and enters populateCache
NotifierDeliver(n) ==
    /\ Monitoring
    /\ notif # <<>>
    /\ n \notin DOMAIN sync.cbs
    /\ \A m \in Tasks : m < n => m \in DOMAIN sync.cbs
    /\ sync' = [sync EXCEPT !.cbs = Put(@, n, [batch |-> Head(notif),
                                               pc |-> "populateCache",
                                               applied |-> FALSE])]
    /\ notif' = Tail(notif)
    /\ calls' = Recycled
    /\ UNCHANGED <<ovsdbCache, lastNew, ovsdb, nextUuid, update, networks, ovsService,
                   links, ctl, hist>>

\* OvsdbNotifier.Update: populateCache(tableUpdates) returns
NotifierPopulate(n) ==
    /\ ctl.alive
    /\ n \in DOMAIN sync.cbs
    /\ sync.cbs[n].pc = "populateCache"
    /\ ovsdbCache' = populateCache(ovsdbCache, sync.cbs[n].batch)
    /\ sync' = [sync EXCEPT !.cbs[n].pc = "send", !.cbs[n].applied = TRUE]
    /\ calls' = Recycled
    /\ UNCHANGED <<lastNew, ovsdb, nextUuid, notif, update, networks, ovsService, links,
                   ctl, hist>>

NotifierSendable_Unapplied(cb) == TRUE

\* the callback has reached update <- &tableUpdates
NotifierSendable(cb) == cb.pc = "send"

\* OvsdbNotifier.Update: update <- &tableUpdates, an unbuffered channel: the send
\* happens when monitorBridges is at its receive
NotifierSend(n) ==
    /\ ctl.alive
    /\ n \in DOMAIN sync.cbs
    /\ NotifierSendable(sync.cbs[n])
    /\ sync.watching
    /\ update = NoUpdate
    /\ update' = sync.cbs[n].batch
    /\ sync' = [sync EXCEPT !.cbs = Drop(@, n)]
    /\ calls' = Recycled
    /\ UNCHANGED <<ovsdbCache, lastNew, ovsdb, nextUuid, notif, networks, ovsService,
                   links, ctl, hist>>

\* ovs-vsctl init: the server inserts the Open_vSwitch row
VsctlInit ==
    /\ ~ovsdb.root
    /\ ovsdb' = [ovsdb EXCEPT !.root = TRUE]
    /\ notif' = IF Monitoring
                THEN Notify(notif, ovsdb, [ovsdb EXCEPT !.root = TRUE]) ELSE notif
    /\ calls' = Recycled
    /\ UNCHANGED <<ovsdbCache, lastNew, sync, nextUuid, update, networks, ovsService,
                   links, ctl, hist>>

\* two tasks in populateCache write the same Go map: the runtime may stop the
\* process with "fatal error: concurrent map writes"
ConcurrentMapWrites ==
    /\ ctl.alive
    /\ Cardinality(Writing) > 1
    /\ Exited
    /\ ctl' = [ctl EXCEPT !.alive = FALSE]
    /\ UNCHANGED <<lastNew, ovsdb, nextUuid, ovsService, links, hist>>

\* the requests with no options and one IPv4 pool
PlainRequests ==
    Enumerated({r \in Requests : /\ r.Options = EmptyMap
                                 /\ r.Generic = EmptyMap
                                 /\ r.IPv4Data = <<"10.1.1.1/24">>})

NextSync ==
    \/ InitMonitorAll
    \/ InitPopulateCache
    \/ InitMonitorBridges
    \/ InitWait
    \/ \E n \in Tasks : NotifierDeliver(n)
    \/ \E n \in Tasks : NotifierPopulate(n)
    \/ \E n \in Tasks : NotifierSend(n)
    \/ MonitorBridges
    \/ ConcurrentMapWrites
    \/ \E name \in BridgeNames : DelBr(name)
    \/ VsctlInit
    \/ \E c \in Serial, r \in PlainRequests : CreateNetwork(c, r)
    \/ \E c \in Serial : AddBridge(c)
    \/ \E c \in Serial : CreateBridge(c)
    \/ \E c \in Serial : AddBridgeRecheck(c)
    \/ \E c \in Serial : ValidateIface(c)
    \/ \E c \in Serial, id \in NetworkIDs : DeleteNetwork(c, id)
    \/ \E c \in Serial : DeleteBridge(c)

SpecSync == InitSync /\ [][NextSync]_vars

(***************************************************************************)
(* SpecJoin: CreateNetwork of nat or flat mode, then Join, while           *)
(* ovs-vswitchd creates the bridge's link and the administrator (or the    *)
(* kernel's address autoconfiguration) changes the addresses of the link.  *)
(***************************************************************************)
EndpointIDs == {"9f8a2", "c41d07e9a3"}

\* the address lists the bridge's link is given from outside the driver
LiveAddrs ==
    {<<>>, <<"10.1.1.1/24">>, <<"192.168.7.1/24">>, <<"fe80::1/64">>,
     <<"192.168.7.1/24", "fe80::1/64">>}

\* net.ParseCIDR(addrs[0].String()) and ip.String(): the address without its mask
ParseCIDR(address) == Split(address)[1]

\* getIPByInterface: the first address net.Interface.Addrs lists for the link
getIPByInterface(iname) ==
    IF iname \notin links.dev THEN Result("", "no such network interface")
    ELSE IF Len(AddrsOf(links.ip, iname)) > 0
    THEN Result(ParseCIDR(AddrsOf(links.ip, iname)[1]), "")
    ELSE Result("", "get ip by interface name error")

\* vethPair: the link's name and its peer's
vethPair(suffix) == [Name |-> ovsPortPrefix \o suffix, PeerName |-> "ethc" \o suffix]

\* addOvsVethPort: the port and interface rows of the veth, attached to the
\* bridge named bridgeName, which must be in the database
addOvsVethPort(db, bridgeName, portName, ok) ==
    IF ok /\ bridgeName \in DbBridgeNames(db) /\ portName \notin db.Port
    THEN [db  |-> [db EXCEPT !.Port = @ \cup {portName},
                             !.Interface = @ \cup {portName}],
          err |-> ""]
    ELSE [db |-> db, err |-> "error attaching veth"]

\* Join: netlink.LinkAdd and LinkSetUp of the veth pair, addOvsVethPort,
\* getIPByInterface of the bridge, the response.  A failed step returns its
\* error and leaves what the earlier steps did.
Join(c, nid, eid) ==
    /\ Serving
    /\ Free(c)
    /\ ctl.calls < MaxCalls
    /\ ~IdBusy(nid)
    /\ \E linkOk, upOk, portOk \in BOOLEAN :
          LET localVethPair == vethPair(truncateID(eid))
              bridgeName    == bridgePrefix \o truncateID(nid)
              added         == /\ linkOk
                               /\ \A v \in links.veth :
                                     {v.Name, v.PeerName}
                                        \cap {localVethPair.Name,
                                              localVethPair.PeerName} = {}
              port          == addOvsVethPort(ovsdb, bridgeName, localVethPair.Name,
                                              portOk)
              gatewayIP     == getIPByInterface(bridgeName)
              err           == IF ~added THEN "failed to create the veth pair"
                               ELSE IF ~upOk THEN "Error enabling Veth local iface"
                               ELSE IF port.err # "" THEN port.err
                               ELSE gatewayIP.err
              call          == [IdleCall EXCEPT
                                  !.op = "join", !.id = nid, !.bn = bridgeName,
                                  !.req = [NetworkID |-> nid, EndpointID |-> eid]]
          IN  /\ links' = IF added THEN [links EXCEPT !.veth = @ \cup {localVethPair}]
                          ELSE links
              /\ ovsdb' = IF added /\ upOk THEN port.db ELSE ovsdb
              /\ hist' = [hist EXCEPT !.join =
                            IF err # "" THEN NoJoin
                            ELSE [SrcName   |-> localVethPair.PeerName,
                                  DstPrefix |-> containerEthName,
                                  Gateway   |-> gatewayIP.val]]
              /\ calls' = [Recycled EXCEPT ![c] = Returned(call, err)]
    /\ ctl' = [ctl EXCEPT !.calls = @ + 1]
    /\ UNCHANGED <<ovsdbCache, lastNew, sync, nextUuid, notif, update, networks,
                   ovsService>>

\* ip addr add / del on the bridge's link, from outside the driver
AddrSet(name, addrs) ==
    /\ ctl.env < MaxEnvOps
    /\ name \in links.dev
    /\ AddrsOf(links.ip, name) # addrs
    /\ links' = [links EXCEPT
                   !.ip = IF addrs = <<>> THEN Drop(@, name) ELSE Put(@, name, addrs),
                   !.addr = IF Len(IPv4Of(addrs)) > 0 THEN @ \cup {name}
                            ELSE @ \ {name}]
    /\ ctl' = [ctl EXCEPT !.env = @ + 1]
    /\ calls' = Recycled
    /\ UNCHANGED <<ovsdbCache, lastNew, sync, ovsdb, nextUuid, notif, update, networks,
                   ovsService, hist>>

\* the requests with no generic options and one IPv4 pool, of nat mode (the
\* default) or of flat mode
JoinRequests ==
    Enumerated({r \in Requests : /\ r.Generic = EmptyMap
                                 /\ r.IPv4Data = <<"10.1.1.1/24">>
                                 /\ bridgeNameOption \notin DOMAIN r.Options
                                 /\ Parsed[r].err[FALSE] = ""})

NextJoin ==
    \/ \E c \in Serial, r \in JoinRequests : CreateNetwork(c, r)
    \/ \E c \in Serial : AddBridge(c)
    \/ \E c \in Serial : CreateBridge(c)
    \/ \E c \in Serial : AddBridgeRecheck(c)
    \/ \E c \in Serial : ValidateIface(c)
    \/ \E c \in Serial : ConfigureBridge(c)
    \/ \E c \in Serial, nid \in NetworkIDs, eid \in EndpointIDs : Join(c, nid, eid)
    \/ \E name \in BridgeNames : LinkAdd(name)
    \/ \E name \in BridgeNames, addrs \in LiveAddrs : AddrSet(name, addrs)

SpecJoin == Init /\ [][NextJoin]_vars

(***************************************************************************)
(* SpecWait: CreateNetwork alone, while ovs-vswitchd creates the links of  *)
(* the bridges or does not.  The handler's goroutine is scheduled again    *)
(* after each time.Sleep of initBridge's loop: weak fairness of            *)
(* ValidateIface.                                                          *)
(***************************************************************************)
NextWait ==
    \/ \E c \in Serial, r \in Requests : CreateNetwork(c, r)
    \/ \E c \in Serial : AddBridge(c)
    \/ \E c \in Serial : CreateBridge(c)
    \/ \E c \in Serial : AddBridgeRecheck(c)
    \/ \E c \in Serial : ValidateIface(c)
    \/ \E c \in Serial : ConfigureBridge(c)
    \/ \E name \in BridgeNames : LinkAdd(name)

SpecWait ==
    /\ Init
    /\ [][NextWait]_vars
    /\ WF_vars(\E c \in Serial : ValidateIface(c))

(***************************************************************************)
(* SpecCache                                                               *)
(***************************************************************************)
InitCache ==
    /\ DriverInit
    /\ ovsdbCache = EmptyCache

\* populateCache(updates) for one batch of the notifier
ApplyBatch(b) ==
    /\ ovsdbCache' = populateCache(ovsdbCache, b)
    /\ lastNew' = [cell \in DOMAIN lastNew \cup Touched(b) |->
                     IF cell \in Touched(b) THEN b[cell[1]][cell[2]].New
                     ELSE lastNew[cell]]
    /\ UNCHANGED driverVars

NextCache == \E b \in Batches : ApplyBatch(b)

SpecCache == InitCache /\ [][NextCache]_vars

(***************************************************************************)
(* Properties                                                              *)
(***************************************************************************)
\* C1: after any sequence of update batches applied by populateCache to an
\* empty cache, the cache equals the cache that one batch holding the last New
\* image of every touched (table, uuid) produces from an empty cache, and a row
\* whose last New image is empty is not in the cache.
C1_ReplayEqualsLastImages ==
    /\ ovsdbCache = populateCache(EmptyCache, LastImageBatch)
    /\ \A cell \in DOMAIN lastNew :
          lastNew[cell] = EmptyRow => cell[2] \notin DOMAIN ovsdbCache[cell[1]]

\* batches were replayed that left one row of a table deleted and another stored
C1_Witness ==
    \E t \in Tables, u, v \in CacheUuids :
       /\ <<t, u>> \in DOMAIN lastNew
       /\ lastNew[<<t, u>>] = EmptyRow
       /\ <<t, v>> \in DOMAIN lastNew
       /\ lastNew[<<t, v>>] # EmptyRow
       /\ v \in DOMAIN ovsdbCache[t]

\* the errors addBridge returns
addBridgeErrors == {"Transaction Failed due to an error", "Error creating Bridge"}

\* addBridge of the call has returned nil
AddBridgeSucceeded(call) ==
    /\ call.pc \in {"validateIface", "configure", "done"}
    /\ call.err \notin addBridgeErrors

\* C2 as stated: an addBridge that follows another addBridge of the same bridge
\* name, the bridge not deleted in between, submits no insert transaction,
\* observes the port of the bridge and returns success.
C2_SecondAddBridgeObservesPort ==
    \A c \in Slots :
       (calls[c].op = "create" /\ calls[c].prev \in {"ok", "err"}) =>
          /\ ~calls[c].txn
          /\ calls[c].first = "exists"
          /\ AddBridgeSucceeded(calls[c])

\* C2 as amended: an addBridge that follows a successful addBridge of the same
\* bridge name, the bridge not deleted in between, submits no insert
\* transaction; when its port query is answered it observes the port of the
\* bridge and returns success.
C2_AddBridgeAfterSuccessInsertsNothing ==
    \A c \in Slots :
       (calls[c].op = "create" /\ calls[c].prev = "ok") =>
          /\ ~calls[c].txn
          /\ calls[c].first \in {"exists", "error"}
          /\ calls[c].first = "exists" => AddBridgeSucceeded(calls[c])

\* a second addBridge of a bridge has found the port and returned nil with no
\* transaction of its own, and CreateNetwork has returned
C2_Witness ==
    \E c \in Slots :
       /\ calls[c].op = "create"
       /\ calls[c].prev = "ok"
       /\ calls[c].first = "exists"
       /\ ~calls[c].txn
       /\ calls[c].pc = "done"
       /\ calls[c].err = ""
       /\ portExists(ovsdb, calls[c].bn)

\* the reply has a result for every operation and no result carries an error
Complete(reply, n) ==
    /\ Len(reply) >= n
    /\ \A i \in 1..Len(reply) : reply[i] = ""

\* the message ends with the error e
Carries(msg, e) ==
    /\ Len(msg) >= Len(e)
    /\ SubSeq(msg, Len(msg) - Len(e) + 1, Len(msg)) = e

\* the transaction's issuer took the reply for a failure carrying its first error
Refused(reply, err) ==
    /\ err # ""
    /\ FirstError(reply) # "" => Carries(err, FirstError(reply))

\* C3: createOvsdbBridge and deleteBridge accept the reply of their transaction
\* only if it has at least as many results as operations and every result has
\* an empty error; in every other case they return a failure that carries the
\* first error of the reply.
C3_ReplyAcceptedOnlyIfComplete ==
    \A c \in Slots :
       /\ (calls[c].op = "create" /\ calls[c].pc = "recheck") =>
             IF Complete(calls[c].reply, createOps) THEN calls[c].txerr = ""
             ELSE Refused(calls[c].reply, calls[c].txerr)
       /\ (calls[c].op = "delete" /\ calls[c].pc = "done" /\ calls[c].txn) =>
             IF Complete(calls[c].reply, deleteOps) THEN calls[c].err = ""
             ELSE Refused(calls[c].reply, calls[c].err)

\* the rows and root references of the bridges named name
NamedBridges(db, name) == {u \in DOMAIN db.Bridge : db.Bridge[u] = name}

\* the database with the Bridge and BridgeOpt rows named name, and the root
\* references to those Bridge rows, taken out and nothing else changed
WithoutBridge(db, name) ==
    [Bridge    |-> [u \in DOMAIN db.Bridge \ NamedBridges(db, name) |-> db.Bridge[u]],
     Port      |-> db.Port \ {name},
     Interface |-> db.Interface \ {name},
     BridgeOpt |-> {o \in db.BridgeOpt : o.name # name},
     bridges   |-> db.bridges \ NamedBridges(db, name),
     root      |-> db.root]

\* C4: a deleteBridge(name) that returns nil has removed the Bridge row and the
\* BridgeOpt row named name and the root reference to that bridge, and has left
\* the rows and root references of every other bridge as they were.
C4_DeleteRemovesExactlyNamedBridge ==
    [][\A c \in Slots :
          (calls[c].pc = "deleteBridge" /\ calls'[c].pc = "done" /\ calls'[c].err = "")
             => ovsdb' = WithoutBridge(ovsdb, calls[c].bn)]_vars

\* the same of a delete transaction that was committed
CommittedDeleteRemovesExactlyNamedBridge ==
    [][\A c \in Slots :
          (/\ calls[c].pc = "deleteBridge"
           /\ calls'[c].pc = "done"
           /\ calls'[c].reply = ReplyOK(deleteOps))
             => (calls'[c].err = "" /\ ovsdb' = WithoutBridge(ovsdb, calls[c].bn))]_vars

\* C5: of the CreateNetwork calls of gateway type that run side by side at most
\* one returns success, and the companion process is started at most once.
C5_OneGatewayCreationSucceeds ==
    /\ hist.concOk <= 1
    /\ ovsService.starts <= 1

\* the step is CreateNetwork entered by the handler of slot c
CreateNetworkEntered(c) ==
    /\ calls[c].pc \in {"idle", "done"}
    /\ calls'[c].op = "create"
    /\ ctl'.calls = ctl.calls + 1

\* the spellings of the gateway types
GatewaySpellings == {"sgw", "SGW", "pgw", "PGW"}

checkExecutableErrors ==
    {"options must specify network name for sgw or pgw type",
     "current node already run sgw or pgw process"}

\* C6: a CreateNetwork of type sgw or pgw, in any case of the letters, made
\* while the companion process runs or without a network name, returns an error
\* with no NetworkState stored and no bridge transaction issued; a CreateNetwork
\* of another type is not rejected by the gateway precondition.
C6_GatewayPrecondition ==
    [][\A c \in Slots :
          CreateNetworkEntered(c) =>
             LET r == calls'[c].req
             IN  /\ (/\ getNetworkType(r) \in GatewaySpellings
                     /\ (ovsService.running \/ getNetworkName(r) = ""))
                       => /\ calls'[c].pc = "done"
                          /\ calls'[c].err # ""
                          /\ ~calls'[c].txn
                          /\ networks' = networks
                          /\ ovsdb' = ovsdb
                          /\ notif' = notif
                 /\ getNetworkType(r) \notin GatewaySpellings
                       => calls'[c].err \notin checkExecutableErrors]_vars

\* a gateway-type CreateNetwork was rejected because the companion process runs
C6_Witness ==
    \E c \in Slots :
       /\ calls[c].op = "create"
       /\ calls[c].pc = "done"
       /\ calls[c].err = "current node already run sgw or pgw process"
       /\ getNetworkType(calls[c].req) = "PGW"
       /\ ovsService.running
       /\ calls[c].id \notin DOMAIN networks

\* the handler is inside initBridge
InitBridgePcs == {"addBridge", "createBridge", "recheck", "validateIface", "configure"}

\* the errors initBridge returns
initBridgeErrors ==
    addBridgeErrors \cup
        {"Could not find a link for the OVS bridge", "Error enabling bridge"}

\* C7: while initBridge runs the networks map holds the NetworkState of the
\* request, and when initBridge has returned an error, which CreateNetwork
\* returns, the map holds no entry for the network id.
C7_StoredThenRolledBack ==
    \A c \in Slots :
       calls[c].op = "create" =>
          /\ calls[c].pc \in InitBridgePcs =>
                /\ calls[c].id \in DOMAIN networks
                /\ networks[calls[c].id] = NewNetworkState(calls[c].req)
          /\ (calls[c].pc = "done" /\ calls[c].err \in initBridgeErrors) =>
                calls[c].id \notin DOMAIN networks

\* initBridge failed after an insert transaction and the entry is gone
C7_Witness ==
    \E c \in Slots :
       /\ calls[c].op = "create"
       /\ calls[c].pc = "done"
       /\ calls[c].err = "Error creating Bridge"
       /\ calls[c].txn
       /\ calls[c].id \notin DOMAIN networks

\* C8: when DeleteNetwork(id) has returned, with an error of deleteBridge or
\* without, the networks map holds no entry for id.
C8_DeleteNetworkForgets ==
    \A c \in Slots :
       (calls[c].op = "delete" /\ calls[c].pc = "done") =>
          calls[c].id \notin DOMAIN networks

\* C9: DeleteNetwork(id) of a network that was created without a bridge-name
\* option before the driver restarted works on the bridge name that CreateNetwork
\* gave the bridge, and when its transaction is committed no Bridge or BridgeOpt
\* row of that name is left in the database.
C9_DeleteAfterRestartUsesCreatedName ==
    \A c \in Slots :
       (calls[c].op = "delete" /\ calls[c].id \in DOMAIN hist.prior) =>
          /\ calls[c].bn = hist.prior[calls[c].id]
          /\ (calls[c].pc = "done" /\ calls[c].reply = ReplyOK(deleteOps)) =>
                /\ NamedBridges(ovsdb, hist.prior[calls[c].id]) = {}
                /\ \A o \in ovsdb.BridgeOpt : o.name # hist.prior[calls[c].id]

\* after a restart, with an empty networks map, DeleteNetwork has removed the
\* bridge of a network of the earlier lifetime
C9_Witness ==
    \E c \in Slots :
       /\ calls[c].op = "delete"
       /\ calls[c].pc = "done"
       /\ calls[c].id \in DOMAIN hist.prior
       /\ ctl.restarts >= 1
       /\ networks = EmptyMap
       /\ calls[c].removed
       /\ calls[c].err = ""

\* C10: a CreateNetwork that returns a configuration error changes nothing: the
\* networks map, the database and its notifications, the links and the
\* companion process are as before, and no transaction was submitted.
C10_ConfigErrorMutatesNothing ==
    [][\A c \in Slots :
          (CreateNetworkEntered(c) /\ calls'[c].err \in ConfigErrors) =>
             /\ calls'[c].pc = "done"
             /\ ~calls'[c].txn
             /\ networks' = networks
             /\ ovsdb' = ovsdb
             /\ nextUuid' = nextUuid
             /\ notif' = notif
             /\ links' = links
             /\ ovsService' = ovsService]_vars

\* a CreateNetwork with an invalid mode returned its error while another
\* network was in the map
C10_Witness ==
    \E c \in Slots :
       /\ calls[c].op = "create"
       /\ calls[c].pc = "done"
       /\ calls[c].err = "is not a valid mode"
       /\ networks # EmptyMap
       /\ calls[c].id \notin DOMAIN networks

\* the bridge name of a request: the bridge-name option when the request has
\* one, "ovsbr-" and the first 5 characters of the network id when it has none
BridgeNameOfRequest(r) ==
    IF "linker.net.ovs.bridge.name" \in DOMAIN r.Options
    THEN r.Options["linker.net.ovs.bridge.name"]
    ELSE IF r.NetworkID = "281746a33da5c97b" THEN "ovsbr-28174"
    ELSE "ovsbr-" \o SubSeq(r.NetworkID, 1, 5)

\* C13: the bridge name CreateNetwork stores in NetworkState is the bridge-name
\* option of the request when there is one, and otherwise "ovsbr-" followed by
\* the first 5 characters of the network id ("ovsbr-28174" for network id
\* "281746a33da5c97b").
C13_StoredBridgeName ==
    \A c \in Slots :
       (/\ calls[c].op = "create"
        /\ \/ calls[c].pc \in InitBridgePcs
           \/ calls[c].pc = "done" /\ calls[c].err = "") =>
          /\ calls[c].id \in DOMAIN networks
          /\ networks[calls[c].id].BridgeName = BridgeNameOfRequest(calls[c].req)
          /\ calls[c].bn = BridgeNameOfRequest(calls[c].req)

\* a network was created under the name of its bridge-name option, which is not
\* the name its network id gives
C13_Witness ==
    \E c \in Slots :
       /\ calls[c].op = "create"
       /\ calls[c].pc = "done"
       /\ calls[c].err = ""
       /\ calls[c].id = "281746a33da5c97b"
       /\ bridgeNameOption \in DOMAIN calls[c].req.Options
       /\ networks[calls[c].id].BridgeName = "ovsbr-5c97b"
       /\ "ovsbr-5c97b" \in DbBridgeNames(ovsdb)

\* the step is the end of addBridge's re-check of the port in slot c
RecheckDone(c) ==
    /\ calls[c].pc = "recheck"
    /\ calls'[c].op = "create"
    /\ calls'[c].pc # "recheck"

CachedBridge(name) ==
    /\ "Bridge" \in DOMAIN ovsdbCache
    /\ \E u \in DOMAIN ovsdbCache["Bridge"] :
          /\ "name" \in DOMAIN ovsdbCache["Bridge"][u]
          /\ ovsdbCache["Bridge"][u].name = name

\* C20: deleteBridge(name) run while the cache holds no Bridge row of that name
\* returns an error, submits no transaction, does not stop the companion
\* process and leaves the database as it is.
C20_DeleteUncachedBridgeFailsFast ==
    [][\A c \in Slots :
          (/\ calls[c].pc = "deleteBridge"
           /\ calls'[c].pc = "done"
           /\ ~CachedBridge(calls[c].bn)) =>
             /\ calls'[c].err = "Unable to find a bridge uuid by name"
             /\ ~calls'[c].txn
             /\ ovsdb' = ovsdb
             /\ notif' = notif
             /\ ovsService' = ovsService]_vars

\* DeleteNetwork failed on a bridge that is in the database and not yet in the
\* cache, while the companion process runs
C20_Witness ==
    \E c \in Slots :
       /\ calls[c].op = "delete"
       /\ calls[c].pc = "done"
       /\ calls[c].err = "Unable to find a bridge uuid by name"
       /\ ~calls[c].txn
       /\ ~CachedBridge(calls[c].bn)
       /\ calls[c].bn \in DbBridgeNames(ovsdb)
       /\ ovsService.running


(***************************************************************************)
(* C11                                                                     *)
(***************************************************************************)
\* the names of the Bridge rows a batch reports as deleted: the New image is
\* empty and the Old image carries the name
DeletedBridges(batch) ==
    IF "Bridge" \notin DOMAIN batch THEN {}
    ELSE {batch["Bridge"][u].Old.name :
             u \in {v \in DOMAIN batch["Bridge"] :
                       /\ batch["Bridge"][v].New = EmptyRow
                       /\ "name" \in DOMAIN batch["Bridge"][v].Old}}

\* the watcher goes through the batch it holds
WatcherHandles == ctl.alive /\ update # NoUpdate /\ update' # update /\ ctl'.alive

\* C11: when the watcher handles a batch, every bridge the batch reports as
\* deleted is in the database again afterwards, under the name of the Old image
\* and with a BridgeOpt row; a batch that reports no deletion makes the watcher
\* change nothing in the database.
C11_WatcherRecreatesDeletedBridge ==
    [][WatcherHandles =>
          /\ \A name \in DeletedBridges(update) :
                /\ name \in DbBridgeNames(ovsdb')
                /\ \E o \in ovsdb'.BridgeOpt : o.name = name
          /\ DeletedBridges(update) = {} => ovsdb' = ovsdb]_vars

\* the watcher has handled a batch that reports a deleted bridge, and the bridge
\* stays deleted
C11_DeletionHandled ==
    /\ ctl.alive
    /\ update = NoUpdate
    /\ sync.watching
    /\ hist.lastAdd["ovsbr-28174"] = "none"
    /\ ctl.env > 0
    /\ notif = <<>>
    /\ sync.cbs = EmptyMap
    /\ "ovsbr-28174" \notin DbBridgeNames(ovsdb)


(***************************************************************************)
(* C12                                                                     *)
(***************************************************************************)
\* C12: while initDBCache has not yet applied the reply of MonitorAll to the
\* cache, no callback of the notifier has applied its batch: the snapshot is
\* the first thing the cache applies.
C12_SnapshotBeforeEvents ==
    sync.boot \in {"MonitorAll", "populateCache"} =>
        \A n \in DOMAIN sync.cbs : ~sync.cbs[n].applied

\* the snapshot went in after the event that deleted one of its rows: nothing
\* is left to deliver, and the cache holds a Bridge row the database has not
C12_StaleRow ==
    /\ ctl.alive
    /\ sync.boot = "up"
    /\ notif = <<>>
    /\ sync.cbs = EmptyMap
    /\ ctl.calls = 0
    /\ DOMAIN getTableCache(ovsdbCache, "Bridge") # DOMAIN ovsdb.Bridge


(***************************************************************************)
(* C16                                                                     *)
(***************************************************************************)
\* C16: at most one unit of execution is in populateCache, the only function
\* that writes the cache, at any time.
C16_SingleWriter == Cardinality(Writing) <= 1

(***************************************************************************)
(* C17                                                                     *)
(***************************************************************************)
\* the watcher receives a batch from the channel
WatcherReceives == ctl.alive /\ update = NoUpdate /\ update' # NoUpdate

\* C17: the batch the watcher receives comes from a callback whose
\* populateCache has returned: the cache applied the batch before the watcher
\* sees it.
C17_ReceivedAfterApplied ==
    [][WatcherReceives =>
          \E n \in DOMAIN sync.cbs :
             /\ sync.cbs[n].batch = update'
             /\ sync.cbs[n].applied
             /\ n \notin DOMAIN sync'.cbs]_vars

\* the watcher holds a batch that inserted a Bridge row, and the cache has the row
C17_Witness ==
    /\ ctl.alive
    /\ sync.watching
    /\ update # NoUpdate
    /\ "Bridge" \in DOMAIN update
    /\ \E u \in DOMAIN update["Bridge"] :
          /\ update["Bridge"][u].New # EmptyRow
          /\ u \in DOMAIN getTableCache(ovsdbCache, "Bridge")
          /\ getTableCache(ovsdbCache, "Bridge")[u] = update["Bridge"][u].New

(***************************************************************************)
(* C18                                                                     *)
(***************************************************************************)
\* C18: a callback that has reached the send on the channel of the running
\* watcher is never kept waiting: the watcher holds no earlier batch.
C18_DeliveryNeverBlocks ==
    \A n \in DOMAIN sync.cbs :
       sync.watching /\ sync.cbs[n].pc = "send" => update = NoUpdate


(***************************************************************************)
(* C15                                                                     *)
(***************************************************************************)
\* a step submits a bridge transaction: createOvsdbBridge or deleteBridge of a
\* driver call, or createOvsdbBridge of the watcher
TransactionSubmitted ==
    \/ \E c \in Slots :
          /\ calls[c].pc \in {"createBridge", "deleteBridge"}
          /\ ~calls[c].txn
          /\ calls'[c].txn
    \/ WatcherHandles /\ monitorBridgesNames(update) # {}

\* C15: a bridge transaction is submitted only while the cache holds the root
\* row, whose identifier the mutate operation then references.
C15_TransactionHasRoot ==
    [][TransactionSubmitted =>
          DOMAIN getTableCache(ovsdbCache, "Open_vSwitch") # {}]_vars

\* the watcher runs and initDBCache still waits for the root row
InitWaitWindow ==
    /\ ctl.alive
    /\ sync.boot = "getRootUUID"
    /\ sync.watching
    /\ DOMAIN getTableCache(ovsdbCache, "Open_vSwitch") = {}

\* a create transaction of a driver call was committed with the root row's
\* identifier: the root row references the new bridge
C15_Witness ==
    /\ \E c \in Slots : calls[c].txn /\ calls[c].pc = "recheck"
    /\ DOMAIN getTableCache(ovsdbCache, "Open_vSwitch") = {RootUUID}
    /\ "ovsbr-5c97b" \in DbBridgeNames(ovsdb)
    /\ \E u \in ovsdb.bridges : ovsdb.Bridge[u] = "ovsbr-5c97b"


(***************************************************************************)
(* C14                                                                     *)
(***************************************************************************)
\* a Join of handler c returns nil as its error
JoinSucceeds(c) ==
    /\ Free(c)
    /\ calls'[c].op = "join"
    /\ calls'[c].pc = "done"
    /\ calls'[c].err = ""

\* the names of the virtual pair of an endpoint: 'ovs-veth0-' and 'ethc', each
\* followed by the first 5 characters of the endpoint id
PairOf(eid) ==
    IF eid = "9f8a2" THEN [Name |-> "ovs-veth0-9f8a2", PeerName |-> "ethc9f8a2"]
    ELSE [Name |-> "ovs-veth0-c41d0", PeerName |-> "ethcc41d0"]

\* the bridge of a network id: 'ovsbr-' and the first 5 characters of the id
BridgeOf(nid) == IF nid = "281746a33da5c97b" THEN "ovsbr-28174" ELSE "ovsbr-5c97b"

\* the IPv4 addresses bound to the link of a bridge, without their masks
LiveIPv4(name) ==
    {SubSeq(a, 1, IndexIn(a, "/", 1) - 1) :
        a \in {AddrsOf(links.ip, name)[i] : i \in 1..Len(AddrsOf(links.ip, name))}
            \cap {"10.1.1.1/24", "192.168.7.1/24"}}

\* C14: a Join that succeeds has created the pair 'ovs-veth0-' + e[:5] with the
\* peer 'ethc' + e[:5], returns the peer as the source interface name, and
\* returns as gateway an IPv4 address that the link of the bridge has at the
\* time of the call.
C14_JoinReturnsLiveGateway ==
    [][\A c \in Slots :
          JoinSucceeds(c) =>
             /\ PairOf(calls'[c].req.EndpointID) \in links'.veth
             /\ PairOf(calls'[c].req.EndpointID) \notin links.veth
             /\ hist'.join.SrcName = PairOf(calls'[c].req.EndpointID).PeerName
             /\ hist'.join.Gateway \in LiveIPv4(BridgeOf(calls'[c].req.NetworkID))]_vars

\* the same, for the first address of the link whatever its family
C14_JoinReturnsFirstAddress ==
    [][\A c \in Slots :
          JoinSucceeds(c) =>
             /\ PairOf(calls'[c].req.EndpointID) \in links'.veth
             /\ PairOf(calls'[c].req.EndpointID) \notin links.veth
             /\ hist'.join.SrcName = PairOf(calls'[c].req.EndpointID).PeerName
             /\ \E a \in {"10.1.1.1/24", "192.168.7.1/24", "fe80::1/64"} :
                   /\ AddrsOf(links.ip, BridgeOf(calls'[c].req.NetworkID))[1] = a
                   /\ hist'.join.Gateway \o "/24" = a
                      \/ hist'.join.Gateway \o "/64" = a]_vars

\* a Join succeeded on a network whose stored gateway is not the address the
\* bridge's link has now
C14_LiveNotStored ==
    /\ \E c \in Slots : calls[c].op = "join" /\ calls[c].pc = "done" /\ calls[c].err = ""
    /\ hist.join.Gateway = "192.168.7.1"
    /\ \E id \in DOMAIN networks : networks[id].Gateway = "10.1.1.1"


\* a Join succeeded on a flat-mode network whose bridge's link has only an IPv6
\* address, and returned that address as the gateway
C14_FlatModeIPv6Gateway ==
    /\ \E c \in Slots : calls[c].op = "join" /\ calls[c].pc = "done" /\ calls[c].err = ""
    /\ \E id \in DOMAIN networks : networks[id].Mode = modeFlat
    /\ hist.join.Gateway = "fe80::1"


(***************************************************************************)
(* C21                                                                     *)
(***************************************************************************)
\* deleteBridge of handler c returns in this step, having submitted its
\* delete transaction
DeleteBridgeReturns(c) ==
    /\ calls[c].pc = "deleteBridge"
    /\ calls'[c].op = "delete"
    /\ calls'[c].pc = "done"
    /\ calls'[c].txn

\* C21: when the delete transaction of deleteBridge fails, with fewer results
\* than operations or with a result that carries an error, deleteBridge
\* returns an error, the companion process is not stopped, and DeleteNetwork
\* returns the error to its caller with the NetworkState entry kept.
C21_FailedTransactionStopsDeletion ==
    [][\A c \in Slots :
          (DeleteBridgeReturns(c) /\ ~Complete(calls'[c].reply, deleteOps)) =>
             /\ calls'[c].err # ""
             /\ ovsService' = ovsService
             /\ networks' = networks]_vars

\* the same of a delete transaction whose reply carries an error
C21_ErrorResultStopsDeletion ==
    [][\A c \in Slots :
          (DeleteBridgeReturns(c) /\ FirstError(calls'[c].reply) # "") =>
             /\ calls'[c].err # ""
             /\ Carries(calls'[c].err, FirstError(calls'[c].reply))
             /\ ovsService' = ovsService
             /\ networks' = networks
             /\ ovsdb' = ovsdb]_vars

\* a DeleteNetwork of a gateway-type bridge got no results for its transaction,
\* returned nil, and the companion process was stopped with the bridge still in
\* the database
C21_EmptyReplyAccepted ==
    \E c \in Slots :
       /\ calls[c].op = "delete"
       /\ calls[c].pc = "done"
       /\ calls[c].txn
       /\ calls[c].reply = <<>>
       /\ calls[c].err = ""
       /\ calls[c].st \in gatewayTypes
       /\ ~ovsService.running
       /\ ovsService.starts > 0
       /\ calls[c].bn \in DbBridgeNames(ovsdb)


(***************************************************************************)
(* C22                                                                     *)
(***************************************************************************)
\* deleteBridge of handler c returns in this step
DeleteBridgeEnds(c) ==
    /\ calls[c].pc = "deleteBridge"
    /\ calls'[c].op = "delete"
    /\ calls'[c].pc = "done"

\* C22: deleteBridge returns nil exactly when the cache resolves the bridge
\* name and no result of the delete transaction carries an error.  With the
\* name resolved the transaction is submitted also when getBridgeServiceType
\* failed, and when the transaction was committed deleteBridge returns nil
\* also when stopOvsService failed.
C22_ResultFromCacheAndTransaction ==
    [][\A c \in Slots :
          DeleteBridgeEnds(c) =>
             /\ calls'[c].err = "" <=>
                   (CachedBridge(calls[c].bn) /\ FirstError(calls'[c].reply) = "")
             /\ (calls[c].sterr # "" /\ CachedBridge(calls[c].bn)) => calls'[c].txn
             /\ (calls'[c].reply = ReplyOK(deleteOps) /\ calls'[c].stop = "error") =>
                   calls'[c].err = ""]_vars

\* the delete transaction of a gateway-type bridge was committed, stopOvsService
\* failed, the companion process still runs, and deleteBridge returned nil
C22_Witness ==
    \E c \in Slots :
       /\ calls[c].op = "delete"
       /\ calls[c].pc = "done"
       /\ calls[c].reply = ReplyOK(deleteOps)
       /\ calls[c].removed
       /\ calls[c].stop = "error"
       /\ ovsService.running
       /\ calls[c].err = ""
       /\ calls[c].id \notin DOMAIN networks

\* getBridgeServiceType failed, and the delete transaction was submitted and
\* took the bridge out of the database
C22_LookupFailedSubmitted ==
    \E c \in Slots :
       /\ calls[c].op = "delete"
       /\ calls[c].pc = "done"
       /\ calls[c].sterr # ""
       /\ calls[c].txn
       /\ calls[c].removed
       /\ calls[c].err = ""


(***************************************************************************)
(* C23                                                                     *)
(***************************************************************************)
\* handler c makes one check for the link of its bridge in this step
LinkChecked(c) ==
    /\ calls[c].pc = "validateIface"
    /\ calls'[c].op = "create"
    /\ calls'[c] # calls[c]

\* handler c waits for the link of its bridge
LinkAwaited(c) == calls[c].pc = "validateIface"

\* C23: initBridge checks for the link of the bridge at most 3 times.  It goes
\* on to configure the bridge only after a check that found the link; when the
\* third check finds none it returns an error, and no address, link state or
\* companion process has changed; and the wait for the link always ends.
C23_LinkWaitBoundedAndFailsClean ==
    /\ [](\A c \in Slots : calls[c].tries <= 3)
    /\ [][\A c \in Slots :
             LinkChecked(c) =>
                /\ calls[c].tries < 3
                /\ calls'[c].pc = "configure" => calls[c].bn \in links.dev
                /\ calls[c].bn \notin links.dev =>
                      /\ calls'[c].tries = calls[c].tries + 1
                      /\ calls'[c].pc = (IF calls[c].tries = 2 THEN "done"
                                         ELSE "validateIface")
                      /\ links' = links
                      /\ ovsService' = ovsService
                /\ calls'[c].pc = "done" =>
                      /\ calls'[c].tries = 3
                      /\ calls'[c].err = "Could not find a link for the OVS bridge"
                      /\ calls[c].id \notin DOMAIN networks']_vars
    /\ \A c \in Slots : LinkAwaited(c) ~> ~LinkAwaited(c)

\* a gateway-type CreateNetwork inserted its bridge, checked 3 times for the
\* link, and returned the error; the link has no address and no companion
\* process was started
C23_Witness ==
    \E c \in Slots :
       /\ calls[c].op = "create"
       /\ calls[c].pc = "done"
       /\ calls[c].tries = 3
       /\ calls[c].err = "Could not find a link for the OVS bridge"
       /\ calls[c].bn \in DbBridgeNames(ovsdb)
       /\ calls[c].bn \notin links.dev
       /\ calls[c].bn \notin links.addr
       /\ Parsed[calls[c].req].ns.NetworkType \in gatewayTypes
       /\ ~ovsService.running
       /\ ovsService.starts = 0


(***************************************************************************)
(* C24                                                                     *)
(***************************************************************************)
\* initBridge of handler c is past the mode's configuration and CreateNetwork
\* ends in this step, the process alive
ConfigureEnds(c) ==
    /\ calls[c].pc = "configure"
    /\ calls'[c].op = "create"
    /\ calls'[c].pc = "done"

\* how CreateNetwork ends when interfaceUp did not bring the link up: the error
\* of netlink.LinkSetUp, or the panic of interfaceUp
linkUpFailures == {"Error enabling bridge", "panic"}

\* C24: in every mode CreateNetwork returns success only if the link of the
\* bridge was brought up, and when bringing it up fails no companion process
\* is started and the NetworkState entry of the network is gone.
C24_LinkUpRequired ==
    [][\A c \in Slots :
          ConfigureEnds(c) =>
             /\ calls'[c].err = "" => calls[c].bn \in links'.up
             /\ calls'[c].err \in linkUpFailures =>
                   /\ ovsService' = ovsService
                   /\ calls[c].id \notin DOMAIN networks']_vars

\* the same, when bringing the link up fails with the error of netlink.LinkSetUp
C24_SetUpErrorRollsBack ==
    [][\A c \in Slots :
          ConfigureEnds(c) =>
             /\ calls'[c].err = "" => calls[c].bn \in links'.up
             /\ calls'[c].err = "Error enabling bridge" =>
                   /\ ovsService' = ovsService
                   /\ calls[c].id \notin DOMAIN networks']_vars

\* interfaceUp did not find the link of a flat-mode bridge and panicked: the
\* NetworkState entry of the network is still in the map
C24_PanicKeepsEntry ==
    \E c \in Slots :
       /\ calls[c].op = "create"
       /\ calls[c].pc = "done"
       /\ calls[c].err = "panic"
       /\ calls[c].bn \notin links.dev
       /\ calls[c].id \in DOMAIN networks
       /\ networks[calls[c].id].Mode = modeFlat


(***************************************************************************)
(* C25                                                                     *)
(***************************************************************************)
\* C25: a DeleteNetwork or a Join of a network id that CreateNetwork recorded
\* works on the bridge whose name is in the NetworkState of that network id.
C25_OperatesOnRecordedBridge ==
    \A c \in Slots :
       (calls[c].op \in {"delete", "join"} /\ calls[c].id \in DOMAIN networks) =>
          calls[c].bn = networks[calls[c].id].BridgeName

\* the same for the networks that were created without a bridge-name option
C25_WithoutOptionRecordedBridge ==
    \A c \in Slots :
       (/\ calls[c].op \in {"delete", "join"}
        /\ calls[c].id \in DOMAIN networks
        /\ calls[c].id \in DOMAIN hist.created) =>
          calls[c].bn = networks[calls[c].id].BridgeName

\* a network was created on the bridge of its bridge-name option, and its
\* DeleteNetwork looked for another bridge, found none and left the bridge of
\* the network in the database
C25_RecordedBridgeLeft ==
    \E c \in Slots :
       /\ calls[c].op = "delete"
       /\ calls[c].pc = "done"
       /\ calls[c].err = "Unable to find a bridge uuid by name"
       /\ calls[c].id \in DOMAIN networks
       /\ networks[calls[c].id].BridgeName # calls[c].bn
       /\ networks[calls[c].id].BridgeName \in DbBridgeNames(ovsdb)
       /\ CachedBridge(networks[calls[c].id].BridgeName)


(***************************************************************************)
(* C26                                                                     *)
(***************************************************************************)
\* the companion process runs for the gateway-type network id of this process
CompanionOf(id) ==
    /\ ovsService.running
    /\ id \in DOMAIN networks
    /\ networks[id].NetworkType \in gatewayTypes

\* C26: a DeleteNetwork that returns success for the network whose
\* CreateNetwork started the companion process leaves no companion process
\* running, unless the command that stops it failed.
C26_DeleteStopsCompanion ==
    [][\A c \in Slots :
          (/\ DeleteBridgeEnds(c)
           /\ calls'[c].err = ""
           /\ CompanionOf(calls[c].id)) =>
             (~ovsService'.running \/ calls'[c].stop = "error")]_vars

\* the same, when the lookup of the service type returned the type of the network
C26_StopsWhenTypeFound ==
    [][\A c \in Slots :
          (/\ DeleteBridgeEnds(c)
           /\ calls'[c].err = ""
           /\ CompanionOf(calls[c].id)
           /\ calls[c].st = networks[calls[c].id].NetworkType) =>
             (~ovsService'.running \/ calls'[c].stop = "error")]_vars

\* in one life of the driver a gateway-type network was created and deleted, the
\* delete transaction committed and stopOvsService was not called: no network
\* is left and the companion process runs, so that the next gateway-type
\* CreateNetwork is rejected
C26_CompanionLeftRunning ==
    /\ ctl.restarts = 0
    /\ Serving
    /\ networks = EmptyMap
    /\ ovsService.running
    /\ \E c \in Slots :
          /\ calls[c].op = "delete"
          /\ calls[c].pc = "done"
          /\ calls[c].err = ""
          /\ calls[c].removed
          /\ calls[c].stop = ""
    /\ \A r \in GatewayRequests :
          Parsed[r].err[ovsService.running] = "current node already run sgw or pgw process"


(***************************************************************************)
(* C27                                                                     *)
(***************************************************************************)
\* the step is a bridge transaction of a driver call, or a change the
\* administrator made
DriverOrAdministrator ==
    \/ ctl'.env # ctl.env
    \/ \E c \in Slots :
          /\ calls[c].pc \in {"createBridge", "deleteBridge"}
          /\ calls'[c].txn

\* C27: no batch the watcher receives holds a row it calls createOvsdbBridge
\* for, whether the batch comes from a create or from a delete transaction,
\* and the database changes only in a transaction of a driver call or by the
\* administrator: the watcher re-creates no bridge that DeleteNetwork removed
\* and answers no create transaction with another one.
C27_WatcherLeavesDriverWorkAlone ==
    /\ [](update # NoUpdate => monitorBridgesNames(update) = {})
    /\ [][ovsdb' # ovsdb => DriverOrAdministrator]_vars
    /\ [][WatcherHandles =>
             /\ update' = NoUpdate
             /\ ovsdb' = ovsdb
             /\ nextUuid' = nextUuid
             /\ notif' = notif]_vars

\* the watcher holds the batch of the delete transaction of a DeleteNetwork
\* (the administrator changed nothing), and the bridge is not in the database
C27_Witness ==
    /\ ctl.alive
    /\ ctl.env = 0
    /\ ctl.restarts = 0
    /\ update # NoUpdate
    /\ networks = EmptyMap
    /\ \E name \in DeletedBridges(update) :
          /\ name \notin DbBridgeNames(ovsdb)
          /\ \A o \in ovsdb.BridgeOpt : o.name # name

\* the watcher holds the batch of a create transaction
C27_CreateBatchHeld ==
    /\ ctl.alive
    /\ update # NoUpdate
    /\ "Bridge" \in DOMAIN update
    /\ \E u \in DOMAIN update["Bridge"] :
          /\ update["Bridge"][u].New # EmptyRow
          /\ u \in DOMAIN ovsdb.Bridge


(***************************************************************************)
(* C28                                                                     *)
(***************************************************************************)
\* CreateNetwork(id) returned success in this life of the driver, without a
\* bridge-name option, and its bridge is in the database
CreatedBridge(id, name) ==
    /\ id \in DOMAIN hist.created
    /\ hist.created[id] = name
    /\ id \in DOMAIN networks
    /\ name \in DbBridgeNames(ovsdb)

\* C28: a DeleteNetwork(id) that follows a successful CreateNetwork(id) and
\* runs while the cache has not applied the update of the create transaction
\* returns success and removes the rows of the bridge.
C28_DeleteToleratesStaleCache ==
    [][\A c \in Slots :
          (/\ DeleteBridgeEnds(c)
           /\ CreatedBridge(calls[c].id, calls[c].bn)
           /\ ~CachedBridge(calls[c].bn)) =>
             /\ calls'[c].err = ""
             /\ ovsdb' = WithoutBridge(ovsdb, calls[c].bn)]_vars

\* CreateNetwork(id) returned success, the update of its transaction is still
\* on its way to the cache, and DeleteNetwork(id) returned the error of the
\* lookup in the cache: the bridge and the NetworkState entry are still there
C28_StaleCacheDeleteFailed ==
    \E c \in Slots :
       /\ calls[c].op = "delete"
       /\ calls[c].pc = "done"
       /\ calls[c].err = "Unable to find a bridge uuid by name"
       /\ CreatedBridge(calls[c].id, calls[c].bn)
       /\ ~CachedBridge(calls[c].bn)
       /\ notif # <<>>
       /\ ctl.env = 0
       /\ ctl.restarts = 0

====
